---- MODULE Spec2Model ----
(***************************************************************************)
(* Status cache and command throttle of the BUTT bridge                    *)
(* (src/butt_bridge.py): StatusCache (cache + gate) and the BUTTController *)
(* operations built on it, run by concurrent request-handling workers.     *)
(*                                                                         *)
(* Time is counted in ticks of 0.25 s, so STATUS_CACHE_DURATION = 2.0 s is *)
(* 8 ticks and COMMAND_MIN_INTERVAL = 0.5 s is 2 ticks.  The code keeps    *)
(* datetime.now() timestamps and only ever uses them as now - timestamp;   *)
(* the model keeps each timestamp as that difference, its age in ticks,    *)
(* which Tick advances up to a cap past which all ages behave alike.       *)
(* A Python string is a tuple of symbols: a symbol is one character or a   *)
(* word free of whitespace, ':' and line breaks.  None is the empty tuple  *)
(* and a present value x is the one-element tuple <<x>>.                   *)
(***************************************************************************)
EXTENDS Integers, Sequences, FiniteSets, TLC

\* ---------------------------------------------------------------- constants
STATUS_CACHE_DURATION == 8
COMMAND_MIN_INTERVAL == 2

\* ------------------------------------------------------------------- bounds
NumWorkers == 2

Workers == 1..NumWorkers

\* The worker of the specifications with one caller at a time.
SeqWorkers == {1}

\* The command types the model exercises (the strings passed as command_type).
CommandTypes == {"status", "start_record"}

\* The keys the cache is used with.
Keys == {"detailed_status", "butt_running"}

\* Opaque payloads for direct cache calls.
CacheValues == {"v1", "v2"}

\* Ages past these are kept as the cap itself.
GateAgeCap == COMMAND_MIN_INTERVAL + 1
CacheAgeCap == STATUS_CACHE_DURATION + 1

NoWorker == 0
None == <<>>
Some(x) == <<x>>

VARIABLES
    cache,              \* StatusCache.cache: key -> <<value, age of timestamp>>
    lock,               \* StatusCache.lock: the worker holding it, or NoWorker
    last_command_time,  \* StatusCache.last_command_time: command_type -> age
    command_lock,       \* StatusCache.command_lock: holder, or NoWorker
    pc,                 \* each worker's position in the code
    frame,              \* each worker's arguments, locals and return value
    admitted_at         \* history: command type -> age of its latest admission

vars == <<cache, lock, last_command_time, command_lock, pc, frame,
          admitted_at>>

\* A worker's frame between two operations.
Frame0 ==
    [op |-> "none", command_type |-> "", now |-> 0, elapsed |-> 0,
     key |-> None, value |-> None, log |-> "", use_cache |-> FALSE,
     result |-> None, ext |-> 0, next |-> FALSE, ret |-> None,
     outcome |-> "", scans |-> 0, is_running |-> None]

Init ==
    /\ cache = <<>>
    /\ lock = NoWorker
    /\ last_command_time = <<>>
    /\ command_lock = NoWorker
    /\ pc = [w \in Workers |-> "idle"]
    /\ frame = [w \in Workers |-> Frame0]
    /\ admitted_at = <<>>

\* The dict d with d[k] = v (k added or overwritten).
DictSet(d, k, v) == [x \in (DOMAIN d) \cup {k} |-> IF x = k THEN v ELSE d[x]]

\* The dict d without the key k (del d[k]).
DictDel(d, k) == [x \in (DOMAIN d) \ {k} |-> d[x]]

\* A `with l:` that does not wait for the holder of l.
CanAcquire_NoLock(l) == TRUE

\* `with l:` can be entered when nobody holds l.
CanAcquire(l) == l = NoWorker

\* An age one tick later.
Older(age, cap) == IF age < cap THEN age + 1 ELSE cap

\* One tick passes: every timestamp kept anywhere is one tick older.
Tick ==
    /\ cache' = [k \in DOMAIN cache |-> <<cache[k][1], Older(cache[k][2], CacheAgeCap)>>]
    /\ last_command_time' =
          [t \in DOMAIN last_command_time |-> Older(last_command_time[t], GateAgeCap)]
    /\ admitted_at' = [t \in DOMAIN admitted_at |-> Older(admitted_at[t], GateAgeCap)]
    /\ frame' = [w \in Workers |->
                  IF pc[w] = "csc_update"
                  THEN [frame[w] EXCEPT !.now = Older(@, GateAgeCap)]
                  ELSE frame[w]]
    /\ UNCHANGED <<lock, command_lock, pc>>

\* ------------------------------------------------ StatusCache.can_send_command

\* The key of last_command_time a command type is throttled under, were all
\* types to share one record.
GateKey_Shared(command_type) == "status"

\* The key of last_command_time a command type is throttled under.
GateKey(command_type) == command_type

\* The comparison with an interval one tick short.
TooSoon_Short(elapsed) == elapsed < COMMAND_MIN_INTERVAL - 1

\* The comparison with `<=` for `<`.
TooSoon_Inclusive(elapsed) == elapsed <= COMMAND_MIN_INTERVAL

\* elapsed < COMMAND_MIN_INTERVAL
TooSoon(elapsed) == elapsed < COMMAND_MIN_INTERVAL

\* A send_command that goes on to the external call whatever the gate said.
AfterGate_IgnoresGate(w, ok) ==
    IF frame[w].op = "can_send_command" THEN "idle" ELSE "sc_exists"

\* Where a worker continues when can_send_command returns `ok`: a direct
\* caller is done; send_command returns the throttled result or goes on.
AfterGate(w, ok) ==
    IF frame[w].op = "can_send_command" THEN "idle"
    ELSE IF ok THEN "sc_exists" ELSE "sc_throttled"

\* with self.command_lock:
csc_acquire(w) ==
    /\ pc[w] = "csc_acquire"
    /\ CanAcquire(command_lock)
    /\ command_lock' = w
    /\ pc' = [pc EXCEPT ![w] = "csc_check"]
    /\ UNCHANGED <<cache, lock, last_command_time, frame, admitted_at>>

\* The check with a rejected call recording its own instant.
csc_check_RecordsFirst(w) ==
    /\ pc[w] = "csc_check"
    /\ LET t == frame[w].command_type
           k == GateKey(t)
           blocked == /\ k \in DOMAIN last_command_time
                      /\ TooSoon(last_command_time[k])
       IN  /\ last_command_time' = IF blocked THEN DictSet(last_command_time, k, 0)
                                            ELSE last_command_time
           /\ IF blocked
              THEN /\ frame' = [frame EXCEPT ![w].elapsed = last_command_time[k],
                                              ![w].ret = Some(FALSE)]
                   /\ command_lock' = NoWorker
                   /\ pc' = [pc EXCEPT ![w] = AfterGate(w, FALSE)]
              ELSE /\ frame' = [frame EXCEPT ![w].now = 0]
                   /\ command_lock' = command_lock
                   /\ pc' = [pc EXCEPT ![w] = "csc_update"]
    /\ UNCHANGED <<cache, lock, admitted_at>>

\* now = datetime.now(); the check of last_command_time; `return False`
\* leaves the with block (releasing the lock).
csc_check(w) ==
    /\ pc[w] = "csc_check"
    /\ LET t == frame[w].command_type
           k == GateKey(t)
           blocked == /\ k \in DOMAIN last_command_time
                      /\ TooSoon(last_command_time[k])
       IN  IF blocked
           THEN /\ frame' = [frame EXCEPT ![w].elapsed = last_command_time[k],
                                           ![w].ret = Some(FALSE)]
                /\ command_lock' = NoWorker
                /\ pc' = [pc EXCEPT ![w] = AfterGate(w, FALSE)]
           ELSE /\ frame' = [frame EXCEPT ![w].now = 0]
                /\ command_lock' = command_lock
                /\ pc' = [pc EXCEPT ![w] = "csc_update"]
    /\ UNCHANGED <<cache, lock, last_command_time, admitted_at>>

\* A gate whose lock is still held when an admitted call returns.
csc_update_KeepsLock(w) ==
    /\ pc[w] = "csc_update"
    /\ LET t == frame[w].command_type
       IN  /\ last_command_time' = DictSet(last_command_time, GateKey(t), frame[w].now)
           /\ admitted_at' = DictSet(admitted_at, t, frame[w].now)
    /\ frame' = [frame EXCEPT ![w].now = 0, ![w].ret = Some(TRUE)]
    /\ command_lock' = command_lock
    /\ pc' = [pc EXCEPT ![w] = AfterGate(w, TRUE)]
    /\ UNCHANGED <<cache, lock>>

\* self.last_command_time[command_type] = now; return True
csc_update(w) ==
    /\ pc[w] = "csc_update"
    /\ LET t == frame[w].command_type
       IN  /\ last_command_time' = DictSet(last_command_time, GateKey(t), frame[w].now)
           /\ admitted_at' = DictSet(admitted_at, t, frame[w].now)
    /\ frame' = [frame EXCEPT ![w].now = 0, ![w].ret = Some(TRUE)]
    /\ command_lock' = NoWorker
    /\ pc' = [pc EXCEPT ![w] = AfterGate(w, TRUE)]
    /\ UNCHANGED <<cache, lock>>

\* A worker calls cache.can_send_command(t).
CallGate(w, t) ==
    /\ pc[w] = "idle"
    /\ frame' = [frame EXCEPT ![w] = [Frame0 EXCEPT !.op = "can_send_command",
                                                    !.command_type = t]]
    /\ pc' = [pc EXCEPT ![w] = "csc_acquire"]
    /\ UNCHANGED <<cache, lock, last_command_time, command_lock, admitted_at>>

GateStep(w) == csc_acquire(w) \/ csc_check(w) \/ csc_update(w)

NextGate ==
    \/ Tick
    \/ \E w \in Workers : \E t \in CommandTypes : CallGate(w, t)
    \/ \E w \in Workers : GateStep(w)

SpecGate == Init /\ [][NextGate]_vars

\* Time advances, a thread that waits for command_lock gets it in the end, a
\* thread inside can_send_command goes on, and every worker keeps calling
\* can_send_command for every type.
FairGate ==
    /\ WF_vars(Tick)
    /\ \A w \in Workers :
          /\ SF_vars(csc_acquire(w))
          /\ WF_vars(csc_check(w) \/ csc_update(w))
          /\ \A t \in CommandTypes : SF_vars(CallGate(w, t))

\* The gate with callers that keep retrying while time advances.
SpecGateFair == Init /\ [][NextGate]_vars /\ FairGate

\* ------------------------------------------------------------- StatusCache.get

\* The expiry test with `<=` for `<`.
Unexpired_Inclusive(age) == age <= STATUS_CACHE_DURATION

\* datetime.now() - timestamp < timedelta(seconds=self.ttl_seconds)
Unexpired(age) == age < STATUS_CACHE_DURATION

\* `if key:` of a key argument (None and "" are falsy).
Truthy(key) == key # None /\ key # Some("")

\* A get_detailed_status that queries the external tool also on a cache hit.
AfterGet_AlwaysQueries(w, found) ==
    IF frame[w].op = "get_detailed_status" THEN "csc_acquire" ELSE "idle"

\* An is_butt_running that tests `if cached:`, taking a cached False for a
\* miss.
AfterGet_FalseIsMiss(w, found) ==
    IF frame[w].op = "get_detailed_status" /\ ~found THEN "csc_acquire"
    ELSE IF frame[w].op = "is_butt_running" /\ ~found THEN "ibr_scan"
    ELSE IF /\ frame[w].op = "is_butt_running"
            /\ cache[frame[w].key[1]][1] = FALSE THEN "ibr_scan"
    ELSE IF frame[w].op = "start_record" THEN
        IF found THEN "sr_check" ELSE "ibr_scan"
    ELSE "idle"

\* Where a worker continues when cache.get returns: get_detailed_status
\* returns the cached status, or goes on to send_command(['-S'], 'status').
AfterGet(w, found) ==
    IF frame[w].op = "get_detailed_status" /\ ~found THEN "csc_acquire"
    ELSE IF frame[w].op = "is_butt_running" /\ ~found THEN "ibr_scan"
    ELSE IF frame[w].op = "start_record" THEN
        IF found THEN "sr_check" ELSE "ibr_scan"
    ELSE "idle"

\* Where a worker continues when cache.set returns.
AfterSet(w) == IF frame[w].op = "start_record" THEN "sr_check" ELSE "idle"

\* Where a worker continues when cache.invalidate returns: inside
\* send_command (also when quit_butt called it) the return statement follows;
\* the invalidate() of quit_butt and a direct call are done.
AfterInvalidate(w) ==
    IF frame[w].op \in {"send_command", "start_record"} THEN "sc_return"
    ELSE IF frame[w].op = "quit_butt" /\ frame[w].key # None THEN "sc_return"
    ELSE IF frame[w].op = "clear_cache" THEN "cc_return"
    ELSE "idle"

\* A get that enters without waiting for the lock.
get_acquire_NoWait(w) ==
    /\ pc[w] = "get_acquire"
    /\ lock' = w
    /\ pc' = [pc EXCEPT ![w] = "get_check"]
    /\ UNCHANGED <<cache, last_command_time, command_lock, frame, admitted_at>>

\* with self.lock:
get_acquire(w) ==
    /\ pc[w] = "get_acquire"
    /\ CanAcquire(lock)
    /\ lock' = w
    /\ pc' = [pc EXCEPT ![w] = "get_check"]
    /\ UNCHANGED <<cache, last_command_time, command_lock, frame, admitted_at>>

\* A get that returns from a miss still holding the lock.
get_check_KeepsLock(w) ==
    /\ pc[w] = "get_check"
    /\ LET k == frame[w].key[1]
       IN  IF k \in DOMAIN cache
           THEN IF Unexpired(cache[k][2])
                THEN /\ frame' = [frame EXCEPT ![w].log = "HIT",
                                                ![w].ret = Some(cache[k][1])]
                     /\ lock' = NoWorker
                     /\ pc' = [pc EXCEPT ![w] = AfterGet(w, TRUE)]
                ELSE /\ frame' = [frame EXCEPT ![w].log = "EXPIRED"]
                     /\ lock' = lock
                     /\ pc' = [pc EXCEPT ![w] = "get_del"]
           ELSE /\ frame' = [frame EXCEPT ![w].log = "MISS", ![w].ret = None]
                /\ lock' = lock
                /\ pc' = [pc EXCEPT ![w] = AfterGet(w, FALSE)]
    /\ UNCHANGED <<cache, last_command_time, command_lock, admitted_at>>

\* The lookup and the expiry test; a hit and a miss return at once.
get_check(w) ==
    /\ pc[w] = "get_check"
    /\ LET k == frame[w].key[1]
       IN  IF k \in DOMAIN cache
           THEN IF Unexpired(cache[k][2])
                THEN /\ frame' = [frame EXCEPT ![w].log = "HIT",
                                                ![w].ret = Some(cache[k][1])]
                     /\ lock' = NoWorker
                     /\ pc' = [pc EXCEPT ![w] = AfterGet(w, TRUE)]
                ELSE /\ frame' = [frame EXCEPT ![w].log = "EXPIRED"]
                     /\ lock' = lock
                     /\ pc' = [pc EXCEPT ![w] = "get_del"]
           ELSE /\ frame' = [frame EXCEPT ![w].log = "MISS", ![w].ret = None]
                /\ lock' = NoWorker
                /\ pc' = [pc EXCEPT ![w] = AfterGet(w, FALSE)]
    /\ UNCHANGED <<cache, last_command_time, command_lock, admitted_at>>

\* del self.cache[key]; return None
get_del(w) ==
    /\ pc[w] = "get_del"
    /\ cache' = DictDel(cache, frame[w].key[1])
    /\ frame' = [frame EXCEPT ![w].ret = None]
    /\ lock' = NoWorker
    /\ pc' = [pc EXCEPT ![w] = AfterGet(w, FALSE)]
    /\ UNCHANGED <<last_command_time, command_lock, admitted_at>>

\* ------------------------------------------------------------- StatusCache.set

\* with self.lock:
set_acquire(w) ==
    /\ pc[w] = "set_acquire"
    /\ CanAcquire(lock)
    /\ lock' = w
    /\ pc' = [pc EXCEPT ![w] = "set_body"]
    /\ UNCHANGED <<cache, last_command_time, command_lock, frame, admitted_at>>

\* A set that keeps the timestamp of the entry it overwrites.
set_body_KeepsTimestamp(w) ==
    /\ pc[w] = "set_body"
    /\ LET k == frame[w].key[1]
       IN  cache' = DictSet(cache, k,
                            <<frame[w].value[1],
                              IF k \in DOMAIN cache THEN cache[k][2] ELSE 0>>)
    /\ lock' = NoWorker
    /\ pc' = [pc EXCEPT ![w] = AfterSet(w)]
    /\ UNCHANGED <<last_command_time, command_lock, frame, admitted_at>>

\* self.cache[key] = (value, datetime.now())
set_body(w) ==
    /\ pc[w] = "set_body"
    /\ cache' = DictSet(cache, frame[w].key[1], <<frame[w].value[1], 0>>)
    /\ lock' = NoWorker
    /\ pc' = [pc EXCEPT ![w] = AfterSet(w)]
    /\ UNCHANGED <<last_command_time, command_lock, frame, admitted_at>>

\* ------------------------------------------------------ StatusCache.invalidate

\* with self.lock:
inv_acquire(w) ==
    /\ pc[w] = "inv_acquire"
    /\ CanAcquire(lock)
    /\ lock' = w
    /\ pc' = [pc EXCEPT ![w] = "inv_body"]
    /\ UNCHANGED <<cache, last_command_time, command_lock, frame, admitted_at>>

\* An invalidate that, called without a key, forgets the throttle records
\* too.
inv_body_ResetsGate(w) ==
    /\ pc[w] = "inv_body"
    /\ cache' = IF Truthy(frame[w].key)
                THEN DictDel(cache, frame[w].key[1])
                ELSE <<>>
    /\ last_command_time' = IF Truthy(frame[w].key) THEN last_command_time
                            ELSE <<>>
    /\ lock' = NoWorker
    /\ pc' = [pc EXCEPT ![w] = AfterInvalidate(w)]
    /\ UNCHANGED <<command_lock, frame, admitted_at>>

\* An invalidate that, called without a key, removes the status entry only.
inv_body_ClearsStatusOnly(w) ==
    /\ pc[w] = "inv_body"
    /\ cache' = IF Truthy(frame[w].key)
                THEN DictDel(cache, frame[w].key[1])
                ELSE DictDel(cache, "detailed_status")
    /\ lock' = NoWorker
    /\ pc' = [pc EXCEPT ![w] = AfterInvalidate(w)]
    /\ UNCHANGED <<last_command_time, command_lock, frame, admitted_at>>

\* if key: (if key in self.cache: del self.cache[key]) else: self.cache.clear()
inv_body(w) ==
    /\ pc[w] = "inv_body"
    /\ cache' = IF Truthy(frame[w].key)
                THEN DictDel(cache, frame[w].key[1])
                ELSE <<>>
    /\ lock' = NoWorker
    /\ pc' = [pc EXCEPT ![w] = AfterInvalidate(w)]
    /\ UNCHANGED <<last_command_time, command_lock, frame, admitted_at>>

\* --------------------------------------------- StatusCache.clear_old_entries

\* An expiry test that spares the entry whose age is the TTL exactly.
Expired_Strict(age) == age > STATUS_CACHE_DURATION

\* now - timestamp >= timedelta(seconds=self.ttl_seconds)
Expired(age) == age >= STATUS_CACHE_DURATION

\* with self.lock:
coe_acquire(w) ==
    /\ pc[w] = "coe_acquire"
    /\ CanAcquire(lock)
    /\ lock' = w
    /\ pc' = [pc EXCEPT ![w] = "coe_body"]
    /\ UNCHANGED <<cache, last_command_time, command_lock, frame, admitted_at>>

\* expired_keys = [...]; for key in expired_keys: del self.cache[key]
coe_body(w) ==
    /\ pc[w] = "coe_body"
    /\ LET expired_keys == {k \in DOMAIN cache : Expired(cache[k][2])}
       IN  /\ cache' = [k \in (DOMAIN cache) \ expired_keys |-> cache[k]]
           /\ frame' = [frame EXCEPT ![w].log = IF expired_keys # {}
                                                THEN "CLEARED" ELSE ""]
    /\ lock' = NoWorker
    /\ pc' = [pc EXCEPT ![w] = "idle"]
    /\ UNCHANGED <<last_command_time, command_lock, admitted_at>>

\* A worker calls cache.clear_old_entries().
CallClear(w) ==
    /\ pc[w] = "idle"
    /\ frame' = [frame EXCEPT ![w] = [Frame0 EXCEPT !.op = "clear_old_entries"]]
    /\ pc' = [pc EXCEPT ![w] = "coe_acquire"]
    /\ UNCHANGED <<cache, lock, last_command_time, command_lock, admitted_at>>

\* A worker calls cache.invalidate() (key=None).
CallInvalidateAll(w) ==
    /\ pc[w] = "idle"
    /\ frame' = [frame EXCEPT ![w] = [Frame0 EXCEPT !.op = "invalidate", !.key = None]]
    /\ pc' = [pc EXCEPT ![w] = "inv_acquire"]
    /\ UNCHANGED <<cache, lock, last_command_time, command_lock, admitted_at>>

\* A worker calls cache.get(k).
CallGet(w, k) ==
    /\ pc[w] = "idle"
    /\ frame' = [frame EXCEPT ![w] = [Frame0 EXCEPT !.op = "get", !.key = Some(k)]]
    /\ pc' = [pc EXCEPT ![w] = "get_acquire"]
    /\ UNCHANGED <<cache, lock, last_command_time, command_lock, admitted_at>>

\* A worker calls cache.set(k, v).
CallSet(w, k, v) ==
    /\ pc[w] = "idle"
    /\ frame' = [frame EXCEPT ![w] = [Frame0 EXCEPT !.op = "set", !.key = Some(k),
                                                    !.value = Some(v)]]
    /\ pc' = [pc EXCEPT ![w] = "set_acquire"]
    /\ UNCHANGED <<cache, lock, last_command_time, command_lock, admitted_at>>

\* A worker calls cache.invalidate(k).
CallInvalidate(w, k) ==
    /\ pc[w] = "idle"
    /\ frame' = [frame EXCEPT ![w] = [Frame0 EXCEPT !.op = "invalidate", !.key = Some(k)]]
    /\ pc' = [pc EXCEPT ![w] = "inv_acquire"]
    /\ UNCHANGED <<cache, lock, last_command_time, command_lock, admitted_at>>

CacheStep(w) ==
    \/ get_acquire(w) \/ get_check(w) \/ get_del(w)
    \/ set_acquire(w) \/ set_body(w)
    \/ inv_acquire(w) \/ inv_body(w)

\* The cache used by one caller at a time.
NextCache ==
    \/ Tick
    \/ \E w \in SeqWorkers : \E k \in Keys :
          \/ CallGet(w, k)
          \/ \E v \in CacheValues : CallSet(w, k, v)
          \/ CallInvalidate(w, k)
    \/ \E w \in SeqWorkers : CacheStep(w)

SpecCache == Init /\ [][NextCache]_vars

\* The keys a caller may pass: those of the service and the empty string.
StringKeys == Keys \cup {""}

\* The cache used by one caller at a time, with every operation it has and
\* with every string as key.
NextCacheAll ==
    \/ Tick
    \/ \E w \in SeqWorkers : \E k \in StringKeys :
          \/ CallGet(w, k)
          \/ \E v \in CacheValues : CallSet(w, k, v)
          \/ CallInvalidate(w, k)
    \/ \E w \in SeqWorkers : CallInvalidateAll(w)
    \/ \E w \in SeqWorkers : CallClear(w)
    \/ \E w \in SeqWorkers : CacheStep(w)
    \/ \E w \in SeqWorkers : coe_acquire(w)
    \/ \E w \in SeqWorkers : coe_body(w)

SpecCacheAll == Init /\ [][NextCacheAll]_vars

\* The values the cache of the store holds.
StoreValues == {"v1"}

\* One caller using all of StatusCache: the cache operations on the status
\* entry and the gate.
NextStore ==
    \/ Tick
    \/ \E w \in SeqWorkers :
          \/ CallGet(w, "detailed_status")
          \/ \E v \in StoreValues : CallSet(w, "detailed_status", v)
          \/ CallInvalidate(w, "detailed_status")
    \/ \E w \in SeqWorkers : CallInvalidateAll(w)
    \/ \E w \in SeqWorkers : CallClear(w)
    \/ \E w \in SeqWorkers : \E t \in CommandTypes : CallGate(w, t)
    \/ \E w \in SeqWorkers : CacheStep(w)
    \/ \E w \in SeqWorkers : coe_acquire(w)
    \/ \E w \in SeqWorkers : coe_body(w)
    \/ \E w \in SeqWorkers : GateStep(w)

SpecStore == Init /\ [][NextStore]_vars

\* The cache used by concurrent callers, with every operation it has.
NextCacheConc ==
    \/ Tick
    \/ \E w \in Workers : \E k \in Keys :
          \/ CallGet(w, k)
          \/ \E v \in CacheValues : CallSet(w, k, v)
          \/ CallInvalidate(w, k)
    \/ \E w \in Workers : CallInvalidateAll(w)
    \/ \E w \in Workers : CallClear(w)
    \/ \E w \in Workers : CacheStep(w)
    \/ \E w \in Workers : coe_acquire(w)
    \/ \E w \in Workers : coe_body(w)

SpecCacheConc == Init /\ [][NextCacheConc]_vars

\* ------------------------------------------------ clear_cache (/api/cache/clear)

\* return jsonify({'success': True, 'message': 'Cache cleared successfully'})
cc_return(w) ==
    /\ pc[w] = "cc_return"
    /\ frame' = [frame EXCEPT ![w].ret = Some(TRUE)]
    /\ pc' = [pc EXCEPT ![w] = "idle"]
    /\ UNCHANGED <<cache, lock, last_command_time, command_lock, admitted_at>>

\* A worker serves POST /api/cache/clear: controller.cache.invalidate().
CallClearCache(w) ==
    /\ pc[w] = "idle"
    /\ frame' = [frame EXCEPT ![w] = [Frame0 EXCEPT !.op = "clear_cache"]]
    /\ pc' = [pc EXCEPT ![w] = "inv_acquire"]
    /\ UNCHANGED <<cache, lock, last_command_time, command_lock, admitted_at>>

\* Concurrent workers that fill the cache, read it and clear it.
NextClear ==
    \/ Tick
    \/ \E w \in Workers : \E k \in Keys :
          \/ CallGet(w, k)
          \/ \E v \in CacheValues : CallSet(w, k, v)
    \/ \E w \in Workers : CallInvalidateAll(w)
    \/ \E w \in Workers : CallClearCache(w)
    \/ \E w \in Workers : CacheStep(w)
    \/ \E w \in Workers : cc_return(w)

SpecClear == Init /\ [][NextClear]_vars

\* --------------------------------------------------------------------- strings

Whitespace == {" ", "\t", "\n", "\r"}

\* str.lower() of one symbol (the upper-case symbols the model uses).
LowerSym(c) ==
    CASE c = "Connected" -> "connected"
      [] c = "CONNECTING" -> "connecting"
      [] c = "Recording" -> "recording"
      [] OTHER -> c

\* str.lower()
Lower(s) == [i \in 1..Len(s) |-> LowerSym(s[i])]

RECURSIVE LStrip(_)
\* str.lstrip()
LStrip(s) == IF s # <<>> /\ Head(s) \in Whitespace THEN LStrip(Tail(s)) ELSE s

RECURSIVE RStrip(_)
\* str.rstrip()
RStrip(s) ==
    IF s # <<>> /\ s[Len(s)] \in Whitespace
    THEN RStrip(SubSeq(s, 1, Len(s) - 1))
    ELSE s

\* str.strip()
Strip(s) == RStrip(LStrip(s))

RECURSIVE Find(_, _, _)
\* The index of the first c in s at or after i, 0 when there is none.
Find(s, c, i) ==
    IF i > Len(s) THEN 0
    ELSE IF s[i] = c THEN i
    ELSE Find(s, c, i + 1)

RECURSIVE Split(_, _)
\* str.split(c)
Split(s, c) ==
    LET i == Find(s, c, 1)
    IN  IF i = 0 THEN <<s>>
        ELSE <<SubSeq(s, 1, i - 1)>> \o Split(SubSeq(s, i + 1, Len(s)), c)

\* "Command executed"
MsgExecuted == <<"Command", " ", "executed">>

\* "Command timed out"
MsgTimedOut == <<"Command", " ", "timed", " ", "out">>

\* f"BUTT executable not found: {self.butt_executable}"
MsgNotFound == <<"BUTT executable not found", ":", " ", "butt">>

\* f"Error sending command: {str(e)}"
MsgError == <<"Error sending command", ":", " ", "OSError">>

\* f"Command throttled - please wait {COMMAND_MIN_INTERVAL}s between {command_type} commands"
MsgThrottled(command_type) ==
    <<"Command throttled - please wait", " ", "0.5", "s between", " ",
      command_type, " ", "commands">>

\* --------------------------------------------- parsing in get_detailed_status

RECURSIVE ParseLines(_, _)
\* status_dict after the loop over the lines.
ParseLines(lines, status_dict) ==
    IF lines = <<>> THEN status_dict
    ELSE LET line == Strip(Head(lines))
             i == Find(line, ":", 1)
         IN  ParseLines(Tail(lines),
                 IF i = 0 THEN status_dict
                 ELSE DictSet(status_dict,
                              Lower(Strip(SubSeq(line, 1, i - 1))),
                              Strip(SubSeq(line, i + 1, Len(line)))))

\* key in status_dict and status_dict[key] is anything but '0'.
IsOne_NotZero(status_dict, key) ==
    key \in DOMAIN status_dict /\ status_dict[key] # <<"0">>

\* key in status_dict and status_dict[key] == '1'
IsOne(status_dict, key) == key \in DOMAIN status_dict /\ status_dict[key] = <<"1">>

\* A record whose streaming field is the connected field.
DetailedStatus_StreamingIsConnected(success, msg) ==
    LET status_dict == ParseLines(Split(Strip(msg), "\n"), <<>>)
        parsed == success /\ msg # <<>>
        connecting == parsed /\ IsOne(status_dict, <<"connecting">>)
        connected == parsed /\ IsOne(status_dict, <<"connected">>)
    IN  [streaming |-> connected,
         recording |-> parsed /\ IsOne(status_dict, <<"recording">>),
         connected |-> connected,
         connecting |-> connecting,
         signal_present |-> parsed /\ IsOne(status_dict, <<"signal", " ", "present">>),
         raw_message |-> IF success THEN Some(msg) ELSE None,
         command_success |-> success,
         cached |-> FALSE]

\* A record whose streaming field is computed when the connected line is
\* read, from the connecting line only if the text has it earlier.
DetailedStatus_InTextOrder(success, msg) ==
    LET status_dict == ParseLines(Split(Strip(msg), "\n"), <<>>)
        parsed == success /\ msg # <<>>
        connecting == parsed /\ IsOne(status_dict, <<"connecting">>)
        connected == parsed /\ IsOne(status_dict, <<"connected">>)
        seen == Find(msg, "connecting", 1) < Find(msg, "connected", 1)
    IN  [streaming |-> connected /\ ~(connecting /\ seen),
         recording |-> parsed /\ IsOne(status_dict, <<"recording">>),
         connected |-> connected,
         connecting |-> connecting,
         signal_present |-> parsed /\ IsOne(status_dict, <<"signal", " ", "present">>),
         raw_message |-> IF success THEN Some(msg) ELSE None,
         command_success |-> success,
         cached |-> FALSE]

\* The status record get_detailed_status builds from send_command's result.
DetailedStatus(success, msg) ==
    LET status_dict == ParseLines(Split(Strip(msg), "\n"), <<>>)
        parsed == success /\ msg # <<>>
        connecting == parsed /\ IsOne(status_dict, <<"connecting">>)
        connected == parsed /\ IsOne(status_dict, <<"connected">>)
    IN  [streaming |-> connected /\ ~connecting,
         recording |-> parsed /\ IsOne(status_dict, <<"recording">>),
         connected |-> connected,
         connecting |-> connecting,
         signal_present |-> parsed /\ IsOne(status_dict, <<"signal", " ", "present">>),
         raw_message |-> IF success THEN Some(msg) ELSE None,
         command_success |-> success,
         cached |-> FALSE]

\* ------------------------------------------------- the parser on status texts

\* The longest status text, in lines.
MaxLines == 3

\* Spellings of the keys of a status line, each with the field it names.
KeySpellings ==
    {<<"connected", <<"connected">>>>,
     <<"connected", <<"Connected", " ">>>>,
     <<"connecting", <<"connecting">>>>,
     <<"recording", <<"recording">>>>,
     <<"signal_present", <<"signal", " ", "present">>>>}

\* Spellings of the value of a status line, each with whether it is '1'
\* once trimmed.
ValueSpellings ==
    {<<TRUE, <<" ", "1">>>>, <<FALSE, <<" ", "0">>>>,
     <<FALSE, <<" ", "1", ":", "1">>>>}

\* The lines of a status text: key:value lines and a line without ':'.
StatusLines ==
    {[key |-> k[1], one |-> v[1], text |-> k[2] \o <<":">> \o v[2]] :
        k \in KeySpellings, v \in ValueSpellings}
    \cup {[key |-> "", one |-> FALSE, text |-> <<"butt", " ", "1">>]}

RECURSIVE StatusText(_)
\* The text made of the lines, joined by newlines.
StatusText(lines) ==
    IF lines = <<>> THEN <<>>
    ELSE IF Len(lines) = 1 THEN lines[1].text
    ELSE lines[1].text \o <<"\n">> \o StatusText(Tail(lines))

\* A status text is handed to the parsing lines of get_detailed_status.
InitParse ==
    /\ cache = <<>>
    /\ lock = NoWorker
    /\ last_command_time = <<>>
    /\ command_lock = NoWorker
    /\ admitted_at = <<>>
    /\ pc = [w \in Workers |-> "idle"]
    /\ \E n \in 0..MaxLines : \E lines \in [1..n -> StatusLines] :
          frame = [w \in Workers |->
                     IF w \in SeqWorkers
                     THEN [Frame0 EXCEPT !.op = "parse", !.value = Some(lines)]
                     ELSE Frame0]

\* The record is built from success = True and the text.
ApplyParse(w) ==
    /\ pc[w] = "idle"
    /\ frame[w].op = "parse"
    /\ frame[w].ret = None
    /\ frame' = [frame EXCEPT
                    ![w].ret = Some(DetailedStatus(TRUE,
                                                   StatusText(frame[w].value[1])))]
    /\ UNCHANGED <<cache, lock, last_command_time, command_lock, pc, admitted_at>>

NextParse == \E w \in SeqWorkers : ApplyParse(w)

SpecParse == InitParse /\ [][NextParse]_vars

\* ------------------------------------------------------ the external channel

\* What subprocess.run can do: return (returncode, stdout, stderr), raise
\* TimeoutExpired, or raise another exception.
RunOutcomes ==
    { [kind |-> "exit", returncode |-> 0,
       stdout |-> <<"connected", ":", " ", "1", "\n", "recording", ":", " ", "1", "\n">>,
       stderr |-> <<>>],
      [kind |-> "exit", returncode |-> 0, stdout |-> <<>>, stderr |-> <<>>],
      [kind |-> "exit", returncode |-> 1, stdout |-> <<>>,
       stderr |-> <<"connection", " ", "refused", "\n">>],
      [kind |-> "timeout"],
      [kind |-> "error"] }

\* ------------------------------------------------- BUTTController.send_command

\* (success, message) of a subprocess.run that returned.
RunResult(r) ==
    LET stdout == Strip(r.stdout)
        stderr == Strip(r.stderr)
    IN  <<r.returncode = 0,
          IF stdout # <<>> THEN stdout
          ELSE IF stderr # <<>> THEN stderr
          ELSE MsgExecuted>>

\* Texts the command writes to stdout or stderr.
RunTexts ==
    {<<>>, <<" ", "\n">>, <<"ok", "\n">>, <<" ", "connection", " ", "refused">>,
     <<"connected", ":", " ", "1", "\n">>}

\* What subprocess.run may return: an exit code and the two captured texts.
RunInputs ==
    [kind : {"exit"}, returncode : {0, 1, 2}, stdout : RunTexts,
     stderr : RunTexts]

\* A completed run r is handed to the lines after subprocess.run.
InitRunResult ==
    /\ cache = <<>>
    /\ lock = NoWorker
    /\ last_command_time = <<>>
    /\ command_lock = NoWorker
    /\ admitted_at = <<>>
    /\ pc = [w \in Workers |-> "idle"]
    /\ \E r \in RunInputs :
          frame = [w \in Workers |->
                     IF w \in SeqWorkers
                     THEN [Frame0 EXCEPT !.op = "run_result", !.value = Some(r)]
                     ELSE Frame0]

\* success, message are computed from the completed run.
ApplyRunResult(w) ==
    /\ pc[w] = "idle"
    /\ frame[w].op = "run_result"
    /\ frame[w].result = None
    /\ frame' = [frame EXCEPT ![w].result = Some(RunResult(frame[w].value[1])),
                              ![w].outcome = "exit"]
    /\ UNCHANGED <<cache, lock, last_command_time, command_lock, pc, admitted_at>>

NextRunResult == \E w \in SeqWorkers : ApplyRunResult(w)

SpecRunResult == InitRunResult /\ [][NextRunResult]_vars

\* Where a worker continues when send_command returns.
AfterSend(w) ==
    IF frame[w].op = "get_detailed_status" THEN "gds_build"
    ELSE IF frame[w].op = "quit_butt" THEN "quit_after"
    ELSE "idle"

\* send_command returns res to its caller; `outcome` notes how the external
\* call went: "" (none made), "missing", "exit", "timeout" or "error".
RunReturns(w, res, outcome) ==
    /\ frame' = [frame EXCEPT ![w].result = Some(res),
                              ![w].elapsed = 0,
                              ![w].outcome = outcome,
                              ![w].ret = IF frame[w].op \in {"send_command",
                                                            "start_record"}
                                         THEN Some(res) ELSE None]
    /\ pc' = [pc EXCEPT ![w] = AfterSend(w)]

\* send_command returns res to its caller.
SendReturns(w, res) == RunReturns(w, res, frame[w].outcome)

\* return False, f"Command throttled - ..."
sc_throttled(w) ==
    /\ pc[w] = "sc_throttled"
    /\ SendReturns(w, <<FALSE, MsgThrottled(frame[w].command_type)>>)
    /\ UNCHANGED <<cache, lock, last_command_time, command_lock, admitted_at>>

\* if not os.path.exists(self.butt_executable): return False, "... not found";
\* otherwise subprocess.run is started.
sc_exists(w) ==
    /\ pc[w] = "sc_exists"
    /\ \E exists \in BOOLEAN :
          IF exists
          THEN /\ frame' = [frame EXCEPT ![w].ext = @ + 1]
               /\ pc' = [pc EXCEPT ![w] = "sc_run"]
          ELSE RunReturns(w, <<FALSE, MsgNotFound>>, "missing")
    /\ UNCHANGED <<cache, lock, last_command_time, command_lock, admitted_at>>

\* A send_command whose handler for subprocess.TimeoutExpired is missing: the
\* exception leaves the call.
sc_run_TimeoutRaises(w) ==
    /\ pc[w] = "sc_run"
    /\ \E r \in RunOutcomes :
          LET res == CASE r.kind = "exit" -> RunResult(r)
                       [] OTHER -> <<FALSE, MsgError>>
          IN  IF r.kind = "timeout"
              THEN /\ frame' = [frame EXCEPT ![w].outcome = r.kind]
                   /\ pc' = [pc EXCEPT ![w] = "raised"]
              ELSE IF r.kind = "exit" /\ frame[w].command_type # "status"
              THEN /\ frame' = [frame EXCEPT ![w].result = Some(res),
                                             ![w].outcome = r.kind,
                                             ![w].key = Some("detailed_status")]
                   /\ pc' = [pc EXCEPT ![w] = "inv_acquire"]
              ELSE RunReturns(w, res, r.kind)
    /\ UNCHANGED <<cache, lock, last_command_time, command_lock, admitted_at>>

\* A send_command that runs the command a second time when the first run
\* did not exit with code 0.
sc_run_RetriesOnce(w) ==
    /\ pc[w] = "sc_run"
    /\ \E r \in RunOutcomes :
          LET res == CASE r.kind = "exit" -> RunResult(r)
                       [] r.kind = "timeout" -> <<FALSE, MsgTimedOut>>
                       [] OTHER -> <<FALSE, MsgError>>
          IN  IF ~res[1] /\ frame[w].ext < 2
              THEN /\ frame' = [frame EXCEPT ![w].ext = @ + 1]
                   /\ pc' = pc
              ELSE IF r.kind = "exit" /\ frame[w].command_type # "status"
              THEN /\ frame' = [frame EXCEPT ![w].result = Some(res),
                                             ![w].outcome = r.kind,
                                             ![w].key = Some("detailed_status")]
                   /\ pc' = [pc EXCEPT ![w] = "inv_acquire"]
              ELSE RunReturns(w, res, r.kind)
    /\ UNCHANGED <<cache, lock, last_command_time, command_lock, admitted_at>>

\* A send_command that withdraws the admission when the run did not exit
\* with code 0.
sc_run_RollsBack(w) ==
    /\ pc[w] = "sc_run"
    /\ \E r \in RunOutcomes :
          LET res == CASE r.kind = "exit" -> RunResult(r)
                       [] r.kind = "timeout" -> <<FALSE, MsgTimedOut>>
                       [] OTHER -> <<FALSE, MsgError>>
          IN  /\ last_command_time' =
                    IF res[1] THEN last_command_time
                    ELSE DictDel(last_command_time, GateKey(frame[w].command_type))
              /\ IF r.kind = "exit" /\ frame[w].command_type # "status"
                 THEN /\ frame' = [frame EXCEPT ![w].result = Some(res),
                                                ![w].outcome = r.kind,
                                                ![w].key = Some("detailed_status")]
                      /\ pc' = [pc EXCEPT ![w] = "inv_acquire"]
                 ELSE RunReturns(w, res, r.kind)
    /\ UNCHANGED <<cache, lock, command_lock, admitted_at>>

\* A send_command that never invalidates.
sc_run_NoInvalidate(w) ==
    /\ pc[w] = "sc_run"
    /\ \E r \in RunOutcomes :
          LET res == CASE r.kind = "exit" -> RunResult(r)
                       [] r.kind = "timeout" -> <<FALSE, MsgTimedOut>>
                       [] OTHER -> <<FALSE, MsgError>>
          IN  IF frame[w].command_type # "status" /\ r.kind = "exit"
              THEN /\ frame' = [frame EXCEPT ![w].result = Some(res),
                                             ![w].outcome = r.kind]
                   /\ pc' = [pc EXCEPT ![w] = "sc_return"]
              ELSE RunReturns(w, res, r.kind)
    /\ UNCHANGED <<cache, lock, last_command_time, command_lock, admitted_at>>

\* subprocess.run ends: it returned (then, for a command type other than
\* 'status', self.cache.invalidate('detailed_status') follows), or it raised
\* TimeoutExpired or another exception (then the except clauses return).
sc_run(w) ==
    /\ pc[w] = "sc_run"
    /\ \E r \in RunOutcomes :
          LET res == CASE r.kind = "exit" -> RunResult(r)
                       [] r.kind = "timeout" -> <<FALSE, MsgTimedOut>>
                       [] OTHER -> <<FALSE, MsgError>>
          IN  IF r.kind = "exit" /\ frame[w].command_type # "status"
              THEN /\ frame' = [frame EXCEPT ![w].result = Some(res),
                                             ![w].outcome = r.kind,
                                             ![w].key = Some("detailed_status")]
                   /\ pc' = [pc EXCEPT ![w] = "inv_acquire"]
              ELSE RunReturns(w, res, r.kind)
    /\ UNCHANGED <<cache, lock, last_command_time, command_lock, admitted_at>>

\* return success, message (after the invalidation)
sc_return(w) ==
    /\ pc[w] = "sc_return"
    /\ SendReturns(w, frame[w].result[1])
    /\ UNCHANGED <<cache, lock, last_command_time, command_lock, admitted_at>>

\* A worker sends a state-changing command: send_command(args, command_type=t).
CallCommand(w, t) ==
    /\ pc[w] = "idle"
    /\ frame' = [frame EXCEPT ![w] = [Frame0 EXCEPT !.op = "send_command",
                                                    !.command_type = t]]
    /\ pc' = [pc EXCEPT ![w] = "csc_acquire"]
    /\ UNCHANGED <<cache, lock, last_command_time, command_lock, admitted_at>>

\* ------------------------------------------ BUTTController.get_detailed_status

\* A get_detailed_status that stores only the records of succeeded queries.
gds_build_SkipsFailed(w) ==
    /\ pc[w] = "gds_build"
    /\ LET res == frame[w].result[1]
           status == DetailedStatus(res[1], res[2])
       IN  /\ frame' = [frame EXCEPT ![w].key = Some("detailed_status"),
                                     ![w].value = Some(status),
                                     ![w].ret = Some(status)]
           /\ pc' = [pc EXCEPT ![w] =
                  IF frame[w].use_cache /\ res[1] THEN "set_acquire" ELSE "idle"]
    /\ UNCHANGED <<cache, lock, last_command_time, command_lock, admitted_at>>

\* The status record is built from (success, msg); with use_cache it is
\* stored under 'detailed_status', on failure as on success; it is returned.
gds_build(w) ==
    /\ pc[w] = "gds_build"
    /\ LET res == frame[w].result[1]
           status == DetailedStatus(res[1], res[2])
       IN  /\ frame' = [frame EXCEPT ![w].key = Some("detailed_status"),
                                     ![w].value = Some(status),
                                     ![w].ret = Some(status)]
           /\ pc' = [pc EXCEPT ![w] =
                  IF frame[w].use_cache THEN "set_acquire" ELSE "idle"]
    /\ UNCHANGED <<cache, lock, last_command_time, command_lock, admitted_at>>

\* The call worker w has returned from is a send_command that succeeded.
CommandSucceeded(w) ==
    /\ frame[w].op = "send_command"
    /\ frame[w].ret # None
    /\ frame[w].ret[1][1]

\* A worker calls get_detailed_status(use_cache); the frame notes whether the
\* call follows a succeeded command of the same worker.
CallStatus(w, use_cache) ==
    /\ pc[w] = "idle"
    /\ frame' = [frame EXCEPT ![w] = [Frame0 EXCEPT !.op = "get_detailed_status",
                                                    !.command_type = "status",
                                                    !.key = Some("detailed_status"),
                                                    !.use_cache = use_cache,
                                                    !.next = use_cache /\ CommandSucceeded(w)]]
    /\ pc' = [pc EXCEPT ![w] = IF use_cache THEN "get_acquire" ELSE "csc_acquire"]
    /\ UNCHANGED <<cache, lock, last_command_time, command_lock, admitted_at>>

\* --------------------------------------------------- BUTTController.quit_butt

\* The command type quit_butt passes to send_command.
QuitType == "quit_butt"

\* A quit_butt that never clears the cache.
quit_after_NoClear(w) ==
    /\ pc[w] = "quit_after"
    /\ frame' = [frame EXCEPT ![w].ret = frame[w].result]
    /\ pc' = [pc EXCEPT ![w] = "idle"]
    /\ UNCHANGED <<cache, lock, last_command_time, command_lock, admitted_at>>

\* if success: self.cache.invalidate(); return success, message
quit_after(w) ==
    /\ pc[w] = "quit_after"
    /\ IF frame[w].result[1][1]
       THEN /\ frame' = [frame EXCEPT ![w].key = None, ![w].ret = frame[w].result]
            /\ pc' = [pc EXCEPT ![w] = "inv_acquire"]
       ELSE /\ frame' = [frame EXCEPT ![w].ret = frame[w].result]
            /\ pc' = [pc EXCEPT ![w] = "idle"]
    /\ UNCHANGED <<cache, lock, last_command_time, command_lock, admitted_at>>

\* A worker calls quit_butt(): send_command(['-q'], command_type='quit_butt').
CallQuit(w) ==
    /\ pc[w] = "idle"
    /\ frame' = [frame EXCEPT ![w] = [Frame0 EXCEPT !.op = "quit_butt",
                                                    !.command_type = QuitType]]
    /\ pc' = [pc EXCEPT ![w] = "csc_acquire"]
    /\ UNCHANGED <<cache, lock, last_command_time, command_lock, admitted_at>>

\* ---------------------------------------------- BUTTController.is_butt_running

\* The loop over psutil.process_iter finds a butt process or none; with
\* use_cache the answer is stored under 'butt_running'; it is returned.
ibr_scan(w) ==
    /\ pc[w] = "ibr_scan"
    /\ \E is_running \in BOOLEAN :
          frame' = [frame EXCEPT ![w].value = Some(is_running),
                                 ![w].scans = @ + 1,
                                 ![w].ret = Some(is_running)]
    /\ pc' = [pc EXCEPT ![w] = IF frame[w].use_cache THEN "set_acquire" ELSE "idle"]
    /\ UNCHANGED <<cache, lock, last_command_time, command_lock, admitted_at>>

\* A worker calls is_butt_running(use_cache).
CallRunning(w, use_cache) ==
    /\ pc[w] = "idle"
    /\ frame' = [frame EXCEPT ![w] = [Frame0 EXCEPT !.op = "is_butt_running",
                                                    !.key = Some("butt_running"),
                                                    !.use_cache = use_cache]]
    /\ pc' = [pc EXCEPT ![w] = IF use_cache THEN "get_acquire" ELSE "ibr_scan"]
    /\ UNCHANGED <<cache, lock, last_command_time, command_lock, admitted_at>>

\* ------------------------------------------------ start_record (/api/record/start)

\* "BUTT is not running"
MsgNotRunning == <<"BUTT is not running">>

\* A handler that sends the command whatever is_butt_running returned.
sr_check_IgnoresLiveness(w) ==
    /\ pc[w] = "sr_check"
    /\ frame' = [frame EXCEPT ![w].is_running = frame[w].ret,
                              ![w].key = None, ![w].value = None,
                              ![w].ret = None]
    /\ pc' = [pc EXCEPT ![w] = "csc_acquire"]
    /\ UNCHANGED <<cache, lock, last_command_time, command_lock, admitted_at>>

\* if not controller.is_butt_running(): return {'success': False, 'message':
\* 'BUTT is not running'}, 400; else controller.start_recording().
sr_check(w) ==
    /\ pc[w] = "sr_check"
    /\ IF frame[w].ret = Some(TRUE)
       THEN /\ frame' = [frame EXCEPT ![w].is_running = frame[w].ret,
                                      ![w].key = None, ![w].value = None,
                                      ![w].ret = None]
            /\ pc' = [pc EXCEPT ![w] = "csc_acquire"]
       ELSE /\ frame' = [frame EXCEPT ![w].is_running = frame[w].ret,
                                      ![w].ret = Some(<<FALSE, MsgNotRunning>>)]
            /\ pc' = [pc EXCEPT ![w] = "idle"]
    /\ UNCHANGED <<cache, lock, last_command_time, command_lock, admitted_at>>

\* A worker serves POST /api/record/start: is_butt_running() with its default
\* use_cache=True comes first.
CallStartRecord(w) ==
    /\ pc[w] = "idle"
    /\ frame' = [frame EXCEPT ![w] = [Frame0 EXCEPT !.op = "start_record",
                                                    !.command_type = "start_record",
                                                    !.key = Some("butt_running"),
                                                    !.use_cache = TRUE]]
    /\ pc' = [pc EXCEPT ![w] = "get_acquire"]
    /\ UNCHANGED <<cache, lock, last_command_time, command_lock, admitted_at>>

\* ------------------------------------------------------------------ the service

\* The command types of the state-changing commands the model sends.
StateChanging == CommandTypes \ {"status"}

ServiceStep(w) ==
    \/ sc_throttled(w) \/ sc_exists(w) \/ sc_run(w) \/ sc_return(w)
    \/ gds_build(w)

\* Concurrent workers reading the status and sending state-changing commands.
Next ==
    \/ Tick
    \/ \E w \in Workers : \E use_cache \in BOOLEAN : CallStatus(w, use_cache)
    \/ \E w \in Workers : \E t \in StateChanging : CallCommand(w, t)
    \/ \E w \in Workers : GateStep(w)
    \/ \E w \in Workers : CacheStep(w)
    \/ \E w \in Workers : ServiceStep(w)

Spec == Init /\ [][Next]_vars

\* One worker reading the status and sending state-changing commands, one
\* request after the other.
NextSeq ==
    \/ Tick
    \/ \E w \in SeqWorkers : \E use_cache \in BOOLEAN : CallStatus(w, use_cache)
    \/ \E w \in SeqWorkers : \E t \in StateChanging : CallCommand(w, t)
    \/ \E w \in SeqWorkers : GateStep(w)
    \/ \E w \in SeqWorkers : CacheStep(w)
    \/ \E w \in SeqWorkers : ServiceStep(w)

SpecSeq == Init /\ [][NextSeq]_vars

\* One worker checking liveness, reading the status and quitting, one request
\* after the other.
NextQuit ==
    \/ Tick
    \/ \E w \in SeqWorkers : CallRunning(w, TRUE)
    \/ \E w \in SeqWorkers : CallStatus(w, TRUE)
    \/ \E w \in SeqWorkers : CallQuit(w)
    \/ \E w \in SeqWorkers : GateStep(w)
    \/ \E w \in SeqWorkers : CacheStep(w)
    \/ \E w \in SeqWorkers : ServiceStep(w)
    \/ \E w \in SeqWorkers : quit_after(w)
    \/ \E w \in SeqWorkers : ibr_scan(w)

SpecQuit == Init /\ [][NextQuit]_vars

\* One worker serving POST /api/record/start again and again: the liveness
\* check through the cache, then the command.
NextStartRecord ==
    \/ Tick
    \/ \E w \in SeqWorkers : CallStartRecord(w)
    \/ \E w \in SeqWorkers : ibr_scan(w)
    \/ \E w \in SeqWorkers : sr_check(w)
    \/ \E w \in SeqWorkers : GateStep(w)
    \/ \E w \in SeqWorkers : CacheStep(w)
    \/ \E w \in SeqWorkers :
          sc_throttled(w) \/ sc_exists(w) \/ sc_run(w) \/ sc_return(w)

SpecStartRecord == Init /\ [][NextStartRecord]_vars

\* Concurrent workers, each reading the status through the cache and
\* quitting: reads, a state-changing command and the clearing of the cache.
NextConc ==
    \/ Tick
    \/ \E w \in Workers : CallStatus(w, TRUE)
    \/ \E w \in Workers : CallQuit(w)
    \/ \E w \in Workers : GateStep(w)
    \/ \E w \in Workers : CacheStep(w)
    \/ \E w \in Workers : ServiceStep(w)
    \/ \E w \in Workers : quit_after(w)

SpecConc == Init /\ [][NextConc]_vars

\* ------------------------------------- a command arriving during a status read

\* Worker v holds the answer of a succeeded status query it has not stored.
HoldsFreshAnswer(v) ==
    /\ pc[v] = "gds_build"
    /\ frame[v].result[1][1]

\* No worker has sent a state-changing command yet.
NoCommandYet == \A v \in Workers : frame[v].op # "send_command"

\* Status reads through the cache, then one state-changing command that a
\* worker sends while another holds the answer of its status query: the
\* requests of two clients, served by two threads of the server.
NextRace ==
    \/ Tick
    \/ \E w \in Workers : NoCommandYet /\ CallStatus(w, TRUE)
    \/ \E w \in Workers : \E t \in StateChanging :
          /\ NoCommandYet
          /\ \E v \in Workers \ {w} : HoldsFreshAnswer(v)
          /\ CallCommand(w, t)
    \/ \E w \in Workers : GateStep(w)
    \/ \E w \in Workers : CacheStep(w)
    \/ \E w \in Workers : ServiceStep(w)

SpecRace == Init /\ [][NextRace]_vars

\* ------------------------------------------------- two overlapping status reads

\* Worker w is the only one that has served a request so far, and the first
\* of the pool.
ServesAlone(w) ==
    \A v \in Workers \ {w} : frame[v].op = "none" /\ w < v

\* Worker w has served nothing yet and a worker before it in the pool is in
\* the external call of its status query.
ArrivesDuringQuery(w) ==
    /\ frame[w].op = "none"
    /\ \E v \in Workers :
          /\ v < w
          /\ pc[v] = "sc_run"
          /\ frame[v].op = "get_detailed_status"

\* Status reads through the cache by one worker, then a read by a second
\* worker that arrives while the external call of the first is running.
NextOverlap ==
    \/ Tick
    \/ \E w \in Workers : ServesAlone(w) /\ CallStatus(w, TRUE)
    \/ \E w \in Workers : ArrivesDuringQuery(w) /\ CallStatus(w, TRUE)
    \/ \E w \in Workers : GateStep(w)
    \/ \E w \in Workers :
          \/ get_acquire(w) \/ get_check(w) \/ get_del(w)
          \/ set_acquire(w) \/ set_body(w)
    \/ \E w \in Workers :
          sc_throttled(w) \/ sc_exists(w) \/ sc_run(w) \/ gds_build(w)

SpecOverlap == Init /\ [][NextOverlap]_vars

\* ------------------------------------- concurrent status reads in one interval

\* Less than COMMAND_MIN_INTERVAL will have passed since every admission
\* when one more tick has passed.
WithinInterval ==
    /\ \A t \in DOMAIN last_command_time :
          last_command_time[t] + 1 < COMMAND_MIN_INTERVAL
    /\ \A w \in Workers :
          pc[w] = "csc_update" => frame[w].now + 1 < COMMAND_MIN_INTERVAL

\* Concurrent status reads through the cache, followed for as long as the
\* first admitted status query is less than COMMAND_MIN_INTERVAL old.
NextWindow ==
    \/ WithinInterval /\ Tick
    \/ \E w \in Workers : CallStatus(w, TRUE)
    \/ \E w \in Workers : GateStep(w)
    \/ \E w \in Workers :
          \/ get_acquire(w) \/ get_check(w)
          \/ set_acquire(w) \/ set_body(w)
    \/ \E w \in Workers :
          sc_throttled(w) \/ sc_exists(w) \/ sc_run(w) \/ gds_build(w)

SpecWindow == Init /\ [][NextWindow]_vars

\* ------------------------------------------------------- the worked scenario

\* The scenario of one client with a responsive external tool: a cached read
\* at t = 0 on the fresh service, a cached read at t = 1 s, a state-changing
\* command at t = 1.2 s and a cached read at t = 1.3 s.  In ticks of 0.25 s
\* the reads fall in ticks 0, 4 and 5 and the command in tick 4.
ScenarioSecondRead == STATUS_CACHE_DURATION \div 2

\* The first read has returned and the command has not been sent.
ScenarioAfterFirst(w) ==
    /\ pc[w] = "idle"
    /\ frame[w].op = "get_detailed_status"
    /\ frame[w].log = "MISS"
    /\ "start_record" \notin DOMAIN last_command_time

\* The second read has returned from the cache.
ScenarioAfterSecond(w) ==
    /\ pc[w] = "idle"
    /\ frame[w].op = "get_detailed_status"
    /\ frame[w].log = "HIT"

\* The command has returned.
ScenarioAfterCommand(w) == pc[w] = "idle" /\ frame[w].op = "send_command"

\* The third read has returned.
ScenarioAfterThird(w) ==
    /\ pc[w] = "idle"
    /\ frame[w].op = "get_detailed_status"
    /\ "start_record" \in DOMAIN last_command_time

\* Time passes between the first and the second read, and between the
\* command and the third read.
ScenarioTick ==
    /\ \E w \in SeqWorkers :
          \/ /\ ScenarioAfterFirst(w)
             /\ "detailed_status" \in DOMAIN cache
             /\ cache["detailed_status"][2] < ScenarioSecondRead
          \/ /\ ScenarioAfterCommand(w)
             /\ last_command_time["start_record"] = 0
    /\ Tick

\* The three reads.
ScenarioRead(w) ==
    /\ \/ frame[w] = Frame0
       \/ /\ ScenarioAfterFirst(w)
          /\ "detailed_status" \in DOMAIN cache
          /\ cache["detailed_status"][2] = ScenarioSecondRead
       \/ /\ ScenarioAfterCommand(w)
          /\ last_command_time["start_record"] = 1
    /\ CallStatus(w, TRUE)

\* The command, in the tick of the second read.
ScenarioCommand(w) ==
    /\ ScenarioAfterSecond(w)
    /\ \E t \in StateChanging : CallCommand(w, t)

\* The executable is in place.
ScenarioExists(w) == sc_exists(w) /\ pc'[w] = "sc_run"

\* The external tool answers: subprocess.run returns, with any exit code.
ScenarioRun(w) ==
    /\ sc_run(w)
    /\ frame'[w].result \notin {Some(<<FALSE, MsgTimedOut>>), Some(<<FALSE, MsgError>>)}

NextScenario ==
    \/ ScenarioTick
    \/ \E w \in SeqWorkers : ScenarioRead(w)
    \/ \E w \in SeqWorkers : ScenarioCommand(w)
    \/ \E w \in SeqWorkers : get_acquire(w)
    \/ \E w \in SeqWorkers : get_check(w)
    \/ \E w \in SeqWorkers : csc_acquire(w)
    \/ \E w \in SeqWorkers : csc_check(w)
    \/ \E w \in SeqWorkers : csc_update(w)
    \/ \E w \in SeqWorkers : ScenarioExists(w)
    \/ \E w \in SeqWorkers : ScenarioRun(w)
    \/ \E w \in SeqWorkers : inv_acquire(w)
    \/ \E w \in SeqWorkers : inv_body(w)
    \/ \E w \in SeqWorkers : sc_return(w)
    \/ \E w \in SeqWorkers : gds_build(w)
    \/ \E w \in SeqWorkers : set_acquire(w)
    \/ \E w \in SeqWorkers : set_body(w)

SpecScenario == Init /\ [][NextScenario]_vars

\* ===================================================================== claims

\* The step of worker w in which can_send_command returns True.
GateAdmits(w) == pc[w] = "csc_update" /\ pc'[w] # "csc_update"

\* The step of worker w in which can_send_command returns False.
GateRejects(w) == pc[w] = "csc_check" /\ pc'[w] \notin {"csc_check", "csc_update"}

\* Worker w is back from a can_send_command(t) that returned r.
GateReturned(w, t, r) ==
    /\ pc[w] = "idle"
    /\ frame[w].op = "can_send_command"
    /\ frame[w].command_type = t
    /\ frame[w].ret = Some(r)

\* At most one worker is between the check of last_command_time and its update.
GateMutex ==
    \A w1, w2 \in Workers :
        (w1 # w2 /\ pc[w1] \in {"csc_check", "csc_update"})
            => pc[w2] \notin {"csc_check", "csc_update"}

\* No admission is made for the instant of an admission already made for the
\* type, and a call is rejected only when an admission of its type lies less
\* than the interval back: of the calls of one instant, one is admitted.
OnePerInstant ==
    \A w \in Workers :
        LET t == frame[w].command_type
        IN  /\ GateAdmits(w) =>
                ~(/\ t \in DOMAIN admitted_at
                  /\ admitted_at[t] = frame[w].now
                  /\ frame[w].now < GateAgeCap)
            /\ GateRejects(w) =>
                /\ t \in DOMAIN admitted_at
                /\ admitted_at[t] < COMMAND_MIN_INTERVAL

\* C1: of the workers that call can_send_command for one command type at the
\* same instant, exactly one is admitted and the others are throttled, under
\* every interleaving: the check and the update are one indivisible step.
C1_ExactlyOneAdmitted == []GateMutex /\ [][OnePerInstant]_vars

\* Two workers called at the same instant: one was admitted, the other
\* rejected with no time elapsed since that admission, which is the first.
C1_Witness ==
    \E w1, w2 \in Workers : \E t \in CommandTypes :
        /\ w1 # w2
        /\ GateReturned(w1, t, TRUE)
        /\ GateReturned(w2, t, FALSE)
        /\ frame[w2].elapsed = 0
        /\ last_command_time[t] = 0

\* C2: every admission of a command type is for an instant at least
\* COMMAND_MIN_INTERVAL after the admission of that type before it, so any
\* two admissions of one type are at least the interval apart.  (An earlier
\* admission aged to the cap is more than the interval back.)
C2_AdmissionsSpaced ==
    [][\A w \in Workers :
        LET t == frame[w].command_type
        IN  (GateAdmits(w) /\ t \in DOMAIN admitted_at)
                => \/ admitted_at[t] - frame[w].now >= COMMAND_MIN_INTERVAL
                   \/ (admitted_at[t] = GateAgeCap /\ frame[w].now > 0)]_vars

\* Two workers were each admitted for the same type, one of them just now.
C2_Witness ==
    \E w1, w2 \in Workers : \E t \in CommandTypes :
        /\ w1 # w2
        /\ GateReturned(w1, t, TRUE)
        /\ GateReturned(w2, t, TRUE)
        /\ last_command_time[t] = 0

\* C3: a call for a type never admitted before is admitted; a call less than
\* the interval after the latest admission of its type is rejected; a call the
\* interval or more after it (exactly the interval included) is admitted.
C3_AdmissionRule ==
    [][\A w \in Workers :
        LET t == frame[w].command_type
        IN  (pc[w] = "csc_check" /\ pc'[w] # "csc_check")
                => (pc'[w] = "csc_update"
                      <=> (\/ t \notin DOMAIN admitted_at
                           \/ admitted_at[t] >= COMMAND_MIN_INTERVAL))]_vars

\* One call was rejected one tick short of the interval and another has
\* passed the check exactly one interval after the latest admission.
C3_Witness ==
    \E w1, w2 \in Workers : \E t \in CommandTypes :
        /\ w1 # w2
        /\ GateReturned(w1, t, FALSE)
        /\ frame[w1].elapsed = COMMAND_MIN_INTERVAL - 1
        /\ pc[w2] = "csc_update"
        /\ frame[w2].command_type = t
        /\ frame[w2].now = 0
        /\ last_command_time[t] = COMMAND_MIN_INTERVAL

\* The throttle records are those of the admissions.
RecordsAreAdmissions == last_command_time = admitted_at

\* Every record of d2 is the record of d one tick older.
Aged(d, d2) ==
    /\ DOMAIN d2 = DOMAIN d
    /\ \A t \in DOMAIN d : d2[t] = Older(d[t], GateAgeCap)

\* C4: a rejected call leaves the throttle record of its type unchanged; the
\* record is only ever set by an admitted call (and otherwise only ages).
C4_RejectLeavesRecord ==
    /\ []RecordsAreAdmissions
    /\ [][/\ \A w \in Workers :
                GateRejects(w) => last_command_time' = last_command_time
          /\ last_command_time' # last_command_time
                => \/ \E w \in Workers : GateAdmits(w)
                   \/ Aged(last_command_time, last_command_time')]_vars

\* A call was rejected some time after the admission, and the record still
\* holds that admission: its age is the elapsed time the call saw.
C4_Witness ==
    \E w \in Workers : \E t \in CommandTypes :
        /\ GateReturned(w, t, FALSE)
        /\ frame[w].elapsed > 0
        /\ t \in DOMAIN last_command_time
        /\ last_command_time[t] = frame[w].elapsed

\* The throttle record of every type but t is the same before and after.
OtherRecordsUnchanged(t) ==
    \A t2 \in CommandTypes \ {t} :
        /\ t2 \in DOMAIN last_command_time' <=> t2 \in DOMAIN last_command_time
        /\ t2 \in DOMAIN last_command_time
              => last_command_time'[t2] = last_command_time[t2]

\* C5: command types are throttled independently: a can_send_command(t1),
\* admitted or rejected, leaves the record of every other type unchanged, and
\* a call is rejected only on account of an admission of its own type.
C5_TypesIndependent ==
    [][\A w \in Workers :
        LET t == frame[w].command_type
        IN  /\ (pc[w] \in {"csc_acquire", "csc_check", "csc_update"} /\ pc'[w] # pc[w])
                => OtherRecordsUnchanged(t)
            /\ GateRejects(w) => t \in DOMAIN admitted_at]_vars

\* One type was admitted just now while the other type had been admitted less
\* than the interval before.
C5_Witness ==
    \E w \in Workers : \E t1, t2 \in CommandTypes :
        /\ t1 # t2
        /\ GateReturned(w, t2, TRUE)
        /\ t1 \in DOMAIN last_command_time
        /\ t2 \in DOMAIN last_command_time
        /\ last_command_time[t2] = 0
        /\ last_command_time[t1] > 0
        /\ last_command_time[t1] < COMMAND_MIN_INTERVAL

\* Worker w is back from a cache.get(k).
GetReturned(w, k) ==
    /\ pc[w] = "idle"
    /\ frame[w].op = "get"
    /\ frame[w].key = Some(k)

\* C6: get(k) returns v exactly when the entry of the latest set(k, v) is
\* still in the cache and now - storedAt < ttl; when now - storedAt >= ttl it
\* returns not-found and the entry of k is absent once the get has returned.
C6_GetWithinTtl ==
    [][\A w \in Workers :
        LET k == frame[w].key[1]
            live == /\ k \in DOMAIN cache
                    /\ cache[k][2] < STATUS_CACHE_DURATION
        IN  /\ (pc[w] = "get_check" /\ pc'[w] # "get_check") =>
                IF live
                THEN /\ pc'[w] # "get_del"
                     /\ frame'[w].ret = Some(cache[k][1])
                     /\ cache' = cache
                ELSE IF k \in DOMAIN cache
                     THEN pc'[w] = "get_del"
                     ELSE frame'[w].ret = None /\ cache' = cache
            /\ (pc[w] = "get_del" /\ pc'[w] # "get_del") =>
                /\ frame'[w].ret = None
                /\ k \notin DOMAIN cache']_vars

\* A get found its entry expired, returned not-found and left the key absent,
\* while the entry of the other key, stored later, is one tick short of the TTL.
C6_Witness ==
    \E w \in Workers : \E k, k2 \in Keys :
        /\ GetReturned(w, k)
        /\ frame[w].log = "EXPIRED"
        /\ frame[w].ret = None
        /\ k \notin DOMAIN cache
        /\ k2 \in DOMAIN cache
        /\ cache[k2][2] = STATUS_CACHE_DURATION - 1

\* Worker w is back from a get_detailed_status(use_cache).
StatusReturned(w) == pc[w] = "idle" /\ frame[w].op = "get_detailed_status"

\* Worker w is back from a get_detailed_status(use_cache=True) that was the
\* first call after a succeeded state-changing command.
NextReadReturned(w) == StatusReturned(w) /\ frame[w].next

\* Worker w is back from a send_command of a state-changing command.
CommandReturned(w) ==
    /\ pc[w] = "idle"
    /\ frame[w].op = "send_command"
    /\ frame[w].command_type \in StateChanging

\* The status read of worker w was rejected by the gate.
ThrottledRead(w) ==
    /\ frame[w].op = "get_detailed_status"
    /\ frame[w].result = Some(<<FALSE, MsgThrottled("status")>>)

\* C7 as stated: after a state-changing command has been admitted and its
\* external call succeeded, the next get_detailed_status(use_cache=True) does
\* not return the record cached before the command, and it issues a fresh
\* external status query.
C7_NextReadQueriesAfresh ==
    \A w \in SeqWorkers :
        NextReadReturned(w) => (frame[w].log # "HIT" /\ frame[w].ext >= 1)

\* C7, amended: with one request at a time, once a state-changing command
\* whose external call succeeded has returned, detailed_status is absent from
\* the cache; the next get_detailed_status(use_cache=True) does not return a
\* cached record, and it issues a fresh external status query unless the gate
\* throttles the status command or the executable is missing.
C7_FreshUnlessThrottled ==
    \A w \in SeqWorkers :
        /\ (CommandReturned(w) /\ CommandSucceeded(w))
              => "detailed_status" \notin DOMAIN cache
        /\ (frame[w].op = "get_detailed_status" /\ frame[w].next)
              => frame[w].log # "HIT"
        /\ NextReadReturned(w)
              => \/ frame[w].ext >= 1
                 \/ frame[w].result = Some(<<FALSE, MsgThrottled("status")>>)
                 \/ frame[w].result = Some(<<FALSE, MsgNotFound>>)

\* The read that follows a succeeded command found the cache without the
\* record, was admitted, queried the external tool and stored the new record.
C7_Witness ==
    \E w \in SeqWorkers :
        /\ NextReadReturned(w)
        /\ frame[w].log = "MISS"
        /\ frame[w].ext = 1
        /\ frame[w].ret # None
        /\ frame[w].ret[1].command_success
        /\ "detailed_status" \in DOMAIN cache
        /\ cache["detailed_status"] = <<frame[w].ret[1], 0>>

\* C8 as stated: every gate-admitted state-changing command removes the
\* detailed_status entry whatever the outcome of the external call: once it
\* has returned, detailed_status is absent, also after a non-zero exit, a
\* missing executable and a timeout.
C8_AdmittedCommandInvalidates ==
    \A w \in SeqWorkers :
        (/\ CommandReturned(w)
         /\ frame[w].ret # Some(<<FALSE, MsgThrottled(frame[w].command_type)>>))
            => "detailed_status" \notin DOMAIN cache

\* C9 as stated: a status read that the gate throttles leaves the cache
\* content exactly as it was: no step of the read changes the cache.
C9_ThrottledReadKeepsCache ==
    [][\A w \in SeqWorkers :
        (ThrottledRead(w) /\ pc'[w] # pc[w]) => cache' = cache]_vars

\* C10 as stated: a throttled status read returns a record with
\* command_success False that carries the throttled message, so that the
\* record differs from the record of a read whose external call failed.
C10_ThrottledReadSaysSo ==
    \A w \in SeqWorkers :
        (StatusReturned(w) /\ ThrottledRead(w))
            => /\ frame[w].ret[1].command_success = FALSE
               /\ frame[w].ret[1].raw_message = Some(MsgThrottled("status"))
               /\ frame[w].ret[1] # DetailedStatus(FALSE, MsgTimedOut)

\* C11: a get_detailed_status(use_cache=True) that finds an unexpired
\* detailed_status entry returns that entry at once: can_send_command is not
\* called (every throttle record is unchanged), the external channel is not
\* invoked, and the cache is left as it is.
C11_HitSkipsGateAndChannel ==
    [][\A w \in SeqWorkers :
        (/\ frame[w].op = "get_detailed_status"
         /\ pc[w] = "get_check" /\ pc'[w] # "get_check"
         /\ "detailed_status" \in DOMAIN cache
         /\ cache["detailed_status"][2] < STATUS_CACHE_DURATION)
            => /\ pc'[w] = "idle"
               /\ frame'[w].ret = Some(cache["detailed_status"][1])
               /\ frame'[w].ext = 0
               /\ frame'[w].result = None
               /\ last_command_time' = last_command_time
               /\ cache' = cache]_vars

\* A cached read returned the entry stored one tick short of the TTL earlier,
\* with no external call, while the status throttle record is that of the
\* query which stored the entry.
C11_Witness ==
    \E w \in SeqWorkers :
        /\ StatusReturned(w)
        /\ frame[w].log = "HIT"
        /\ frame[w].ext = 0
        /\ "detailed_status" \in DOMAIN cache
        /\ cache["detailed_status"][2] = STATUS_CACHE_DURATION - 1
        /\ frame[w].ret = Some(cache["detailed_status"][1])
        /\ "status" \in DOMAIN last_command_time
        /\ last_command_time["status"] = GateAgeCap

\* C12: a state-changing command that the gate rejects returns
\* (False, "Command throttled ...") without invoking the external channel
\* and without invalidating: the cache is the same before and after.
C12_ThrottledCommandNoEffect ==
    [][\A w \in SeqWorkers :
        frame[w].op = "send_command" =>
            /\ GateRejects(w) => (pc'[w] = "sc_throttled" /\ cache' = cache)
            /\ (pc[w] = "sc_throttled" /\ pc'[w] # "sc_throttled")
                  => /\ pc'[w] = "idle"
                     /\ frame'[w].ret =
                           Some(<<FALSE, MsgThrottled(frame[w].command_type)>>)
                     /\ frame'[w].ext = 0
                     /\ cache' = cache]_vars

\* A state-changing command came back throttled, with no external call, and
\* the detailed_status entry stored before it is still in the cache.
C12_Witness ==
    \E w \in SeqWorkers :
        /\ CommandReturned(w)
        /\ frame[w].ret = Some(<<FALSE, MsgThrottled(frame[w].command_type)>>)
        /\ frame[w].ext = 0
        /\ "detailed_status" \in DOMAIN cache

\* Worker w is back from a quit_butt().
QuitReturned(w) == pc[w] = "idle" /\ frame[w].op = "quit_butt"

\* C13: once a quit_butt whose external call succeeded has returned, the
\* cache holds neither detailed_status nor butt_running: it is empty.
C13_SuccessfulQuitClearsAll ==
    \A w \in SeqWorkers :
        (QuitReturned(w) /\ frame[w].ret[1][1]) => cache = <<>>

\* A quit succeeded less than the interval after a status query whose record
\* was cached (the TTL is longer than that), and the cache is empty.
C13_Witness ==
    \E w \in SeqWorkers :
        /\ QuitReturned(w)
        /\ frame[w].ret[1][1]
        /\ frame[w].ext = 1
        /\ cache = <<>>
        /\ "status" \in DOMAIN last_command_time
        /\ last_command_time["status"] < COMMAND_MIN_INTERVAL

\* C14 as stated: every quit_butt the gate admitted leaves the cache without
\* butt_running and without detailed_status when it returns, whether the
\* external call succeeded or failed.
C14_AdmittedQuitClearsAll ==
    \A w \in SeqWorkers :
        (QuitReturned(w) /\ frame[w].ret # Some(<<FALSE, MsgThrottled(QuitType)>>))
            => /\ "butt_running" \notin DOMAIN cache
               /\ "detailed_status" \notin DOMAIN cache

\* C15 as stated: whenever get_detailed_status has reached the external
\* channel, with use_cache True or False, the record it returns is the one
\* stored under detailed_status when it has returned.
C15_QueriedRecordIsStored ==
    \A w \in SeqWorkers :
        (StatusReturned(w) /\ frame[w].ext >= 1)
            => /\ "detailed_status" \in DOMAIN cache
               /\ Some(cache["detailed_status"][1]) = frame[w].ret

\* The entry under detailed_status is unexpired and holds a failure record.
FailureCached ==
    /\ "detailed_status" \in DOMAIN cache
    /\ cache["detailed_status"][2] < STATUS_CACHE_DURATION
    /\ ~cache["detailed_status"][1].command_success

\* C16: when an admitted status query of a get_detailed_status(use_cache=True)
\* fails at the external channel, the failure record it returns is stored
\* under detailed_status; and a get_detailed_status(use_cache=True) that finds
\* a failure record within the TTL returns it with no external call.
C16_NegativeResultsCached ==
    /\ [](\A w \in SeqWorkers :
            (/\ StatusReturned(w)
             /\ frame[w].use_cache
             /\ frame[w].ext >= 1
             /\ ~frame[w].ret[1].command_success)
                => /\ "detailed_status" \in DOMAIN cache
                   /\ Some(cache["detailed_status"][1]) = frame[w].ret)
    /\ [][\A w \in SeqWorkers :
            (/\ frame[w].op = "get_detailed_status"
             /\ pc[w] = "get_check" /\ pc'[w] # "get_check"
             /\ FailureCached)
                => /\ pc'[w] = "idle"
                   /\ frame'[w].ret = Some(cache["detailed_status"][1])
                   /\ frame'[w].ext = 0
                   /\ cache' = cache]_vars

\* A cached read was admitted, its external call timed out, and the failure
\* record it returned has just been stored under detailed_status.
C16_Witness ==
    \E w \in SeqWorkers :
        /\ StatusReturned(w)
        /\ frame[w].use_cache
        /\ frame[w].ext = 1
        /\ frame[w].result = Some(<<FALSE, MsgTimedOut>>)
        /\ "detailed_status" \in DOMAIN cache
        /\ cache["detailed_status"] = <<frame[w].ret[1], 0>>
        /\ ~frame[w].ret[1].command_success

\* C17: in the scenario, the read at t = 0 misses, is admitted, queries the
\* external tool and caches the record it returns; the read at t = 1 s
\* returns that same record, stored at t = 0, with no external call; the
\* command at t = 1.2 s is admitted, reaches the external tool and leaves the
\* cache without detailed_status; the read at t = 1.3 s misses the cache and
\* issues a fresh external query, whose record is cached.
C17_Scenario ==
    \A w \in SeqWorkers :
        /\ ScenarioAfterFirst(w) =>
              /\ frame[w].ext = 1
              /\ "status" \in DOMAIN last_command_time
              /\ "detailed_status" \in DOMAIN cache
              /\ Some(cache["detailed_status"][1]) = frame[w].ret
        /\ ScenarioAfterSecond(w) =>
              /\ frame[w].ext = 0
              /\ frame[w].result = None
              /\ cache["detailed_status"][2] = ScenarioSecondRead
              /\ Some(cache["detailed_status"][1]) = frame[w].ret
        /\ ScenarioAfterCommand(w) =>
              /\ frame[w].ext = 1
              /\ frame[w].ret # Some(<<FALSE, MsgThrottled(frame[w].command_type)>>)
              /\ "detailed_status" \notin DOMAIN cache
        /\ ScenarioAfterThird(w) =>
              /\ frame[w].log = "MISS"
              /\ frame[w].ext = 1
              /\ "detailed_status" \in DOMAIN cache
              /\ cache["detailed_status"] = <<frame[w].ret[1], 0>>

\* The scenario has run to its end: the third read has returned the record of
\* its own external query, one tick after the command and five ticks after
\* the first status query.
C17_Witness ==
    \E w \in SeqWorkers :
        /\ ScenarioAfterThird(w)
        /\ frame[w].next
        /\ frame[w].ext = 1
        /\ frame[w].ret[1].command_success
        /\ last_command_time["start_record"] = 1
        /\ last_command_time["status"] = 0
        /\ cache["detailed_status"] = <<frame[w].ret[1], 0>>

\* Worker w is at the external call of send_command.
InExternalCall(w) == pc[w] = "sc_run"

\* Worker w waits for the cache lock, or for the gate lock.
WaitsForCache(w) == pc[w] \in {"get_acquire", "set_acquire", "inv_acquire"}
WaitsForGate(w) == pc[w] = "csc_acquire"

\* Worker w can take its next step (building the status record is the one
\* step with no condition but the worker's position).
Runnable(w) ==
    \/ pc[w] = "gds_build"
    \/ ENABLED (\/ GateStep(w) \/ CacheStep(w)
                \/ sc_throttled(w) \/ sc_exists(w) \/ sc_run(w) \/ sc_return(w)
                \/ quit_after(w))

\* C18: no worker ever holds the cache lock and the gate lock together, and
\* every worker inside an operation can take its next step, or waits for a
\* lock whose holder can take its next step: no interleaving of concurrent
\* reads, writes and cache clears is a deadlock.
C18_LocksNeverNested ==
    /\ \A w \in Workers : ~(lock = w /\ command_lock = w)
    /\ \A w \in Workers :
          pc[w] # "idle" =>
              \/ Runnable(w)
              \/ /\ WaitsForCache(w)
                 /\ lock \notin {NoWorker, w}
                 /\ Runnable(lock)
              \/ /\ WaitsForGate(w)
                 /\ command_lock \notin {NoWorker, w}
                 /\ Runnable(command_lock)

\* One worker holds the cache lock while another holds the gate lock.
C18_Witness ==
    \E w1, w2 \in Workers :
        /\ w1 # w2
        /\ lock = w1
        /\ pc[w1] = "inv_body"
        /\ command_lock = w2
        /\ pc[w2] = "csc_update"

\* C19: a worker at subprocess.run holds neither the cache lock nor the gate
\* lock, so a worker waiting for either lock meanwhile can take it unless
\* yet another worker holds it.
C19_NoLockAcrossExternalCall ==
    \A w \in Workers :
        InExternalCall(w) =>
            /\ lock # w
            /\ command_lock # w
            /\ \A w2 \in Workers \ {w} :
                  /\ (WaitsForCache(w2) /\ lock \in {NoWorker, w})
                        => ENABLED CacheStep(w2)
                  /\ (WaitsForGate(w2) /\ command_lock \in {NoWorker, w})
                        => ENABLED GateStep(w2)

\* While one worker is at the external call another has been admitted by the
\* gate and is inside the critical section of the cache.
C19_Witness ==
    \E w1, w2 \in Workers :
        /\ w1 # w2
        /\ InExternalCall(w1)
        /\ pc[w2] = "set_body"
        /\ lock = w2
        /\ frame[w2].ext = 1

\* Worker w is inside the critical section of a cache operation.
InCacheSection(w) ==
    pc[w] \in {"get_check", "get_del", "set_body", "inv_body", "coe_body"}

\* C20: under every interleaving of get, set, invalidate(k), invalidate() and
\* clear_old_entries from concurrent workers, at most one worker is inside a
\* cache operation and it is the holder of the lock; and the entry a get is
\* about to delete is still there and is the expired one it tested, never one
\* stored meanwhile by a set or removed meanwhile by another operation.
C20_CacheOperationsAtomic ==
    /\ \A w \in Workers : InCacheSection(w) => lock = w
    /\ \A w \in Workers :
          pc[w] = "get_del" =>
              /\ frame[w].key[1] \in DOMAIN cache
              /\ cache[frame[w].key[1]][2] >= STATUS_CACHE_DURATION

\* A get has found its entry expired and is about to delete it while another
\* worker waits for the lock to set the same key; the other key holds an
\* unexpired entry.
C20_Witness ==
    \E w1, w2 \in Workers : \E k, k2 \in Keys :
        /\ w1 # w2
        /\ k # k2
        /\ pc[w1] = "get_del"
        /\ frame[w1].key = Some(k)
        /\ pc[w2] = "set_acquire"
        /\ frame[w2].key = Some(k)
        /\ k2 \in DOMAIN cache
        /\ cache[k2][2] < STATUS_CACHE_DURATION

\* ------------------------------------------------------------------ C21

\* The call of send_command has made its external call and is past it.
PastRun(w) == frame[w].outcome # "" /\ pc[w] # "sc_run"

\* C21: a failed command never leaves send_command as an exception: a missing
\* executable, a run that timed out and any other error of the run each give
\* the pair (False, message) with a message, and the timed-out run gives
\* (False, "Command timed out").
C21_FailuresAreResults ==
    \A w \in SeqWorkers :
        /\ pc[w] # "raised"
        /\ PastRun(w) => frame[w].result # None
        /\ PastRun(w) /\ frame[w].outcome \in {"missing", "timeout", "error"}
              => /\ frame[w].result[1][1] = FALSE
                 /\ frame[w].result[1][2] # <<>>
        /\ PastRun(w) /\ frame[w].outcome = "timeout"
              => frame[w].result = Some(<<FALSE, MsgTimedOut>>)
        /\ CommandReturned(w) => frame[w].ret = frame[w].result

C21_Witness ==
    \E w \in SeqWorkers :
        /\ CommandReturned(w)
        /\ frame[w].outcome = "timeout"
        /\ frame[w].ret = Some(<<FALSE, MsgTimedOut>>)

\* ------------------------------------------------------------------ C22

\* C22: nothing is retried: one call of get_detailed_status or of a
\* state-changing command runs the external command at most once, whatever
\* that run gives.
C22_AtMostOneInvocation ==
    \A w \in SeqWorkers :
        frame[w].op \in {"get_detailed_status", "send_command"}
            => frame[w].ext <= 1

C22_Witness ==
    \E w \in SeqWorkers :
        /\ CommandReturned(w)
        /\ frame[w].outcome = "error"
        /\ frame[w].ext = 1
        /\ frame[w].ret = Some(<<FALSE, MsgError>>)

\* ------------------------------------------------------------------ C23

\* The handler of /api/record/start has returned to the client.
StartRecordReturned(w) == pc[w] = "idle" /\ frame[w].op = "start_record"

\* C23: when is_butt_running reports that BUTT is not running, or when the
\* executable path does not exist, the control operation returns a failure
\* and the external command is never run in that call.
C23_UnavailableNotInvoked ==
    \A w \in SeqWorkers :
        /\ frame[w].op = "start_record" /\ frame[w].is_running = Some(FALSE)
              => /\ frame[w].ext = 0
                 /\ StartRecordReturned(w)
                 /\ frame[w].ret = Some(<<FALSE, MsgNotRunning>>)
        /\ frame[w].op = "start_record" /\ frame[w].outcome = "missing"
              => /\ frame[w].ext = 0
                 /\ StartRecordReturned(w)
                 /\ frame[w].ret = Some(<<FALSE, MsgNotFound>>)

C23_Witness ==
    \E w \in SeqWorkers :
        /\ StartRecordReturned(w)
        /\ frame[w].is_running = Some(FALSE)
        /\ frame[w].log = "HIT"
        /\ frame[w].ext = 0
        /\ frame[w].ret = Some(<<FALSE, MsgNotRunning>>)

\* ------------------------------------------------------------------ C24

\* C24: the result of a completed run is success exactly when the exit code
\* is 0, and with a non-zero exit code the message is the text of stderr, or
\* a generic message when stderr is empty.
C24_FailureReportsStderr ==
    \A w \in SeqWorkers :
        frame[w].op = "run_result" /\ frame[w].result # None
            => LET r == frame[w].value[1]
                   res == frame[w].result[1]
               IN  /\ res[1] = (r.returncode = 0)
                   /\ r.returncode # 0
                         => res[2] = IF Strip(r.stderr) # <<>>
                                     THEN Strip(r.stderr) ELSE MsgExecuted

\* The half of C24 that holds: success exactly when the exit code is 0.
C24_SuccessIffExitZero ==
    \A w \in SeqWorkers :
        frame[w].op = "run_result" /\ frame[w].result # None
            => frame[w].result[1][1] = (frame[w].value[1].returncode = 0)

\* ------------------------------------------------------------ C25, C26, C27

\* The text of worker w has been parsed.
Parsed(w) == frame[w].op = "parse" /\ frame[w].ret # None

\* "connected: 1\nconnecting: 1\nrecording: 0"
ExampleText ==
    <<"connected", ":", " ", "1", "\n", "connecting", ":", " ", "1", "\n",
      "recording", ":", " ", "0">>

\* C25: for every status text the record has streaming = connected and not
\* connecting; the text "connected: 1\nconnecting: 1\nrecording: 0" gives
\* streaming false, connected true, connecting true.
C25_StreamingDerivation ==
    \A w \in SeqWorkers :
        Parsed(w)
            => LET status == frame[w].ret[1]
               IN  /\ status.streaming
                         = (status.connected /\ ~status.connecting)
                   /\ StatusText(frame[w].value[1]) = ExampleText
                         => /\ ~status.streaming
                            /\ status.connected
                            /\ status.connecting
                            /\ ~status.recording

C25_Witness ==
    \E w \in SeqWorkers :
        /\ Parsed(w)
        /\ StatusText(frame[w].value[1]) = ExampleText
        /\ frame[w].ret[1].connected
        /\ frame[w].ret[1].connecting
        /\ ~frame[w].ret[1].streaming

\* The mapping built from the lines gives field the value '1': the last line
\* with that key has a value that is '1' once trimmed.
MappedToOne(lines, field) ==
    \E i \in 1..Len(lines) :
        /\ lines[i].key = field
        /\ lines[i].one
        /\ \A j \in (i + 1)..Len(lines) : lines[j].key # field

\* C26: for every status text each of connected, connecting, recording and
\* signal_present is true exactly when the text maps its key to a value that
\* is '1' once trimmed (the last line of a repeated key counts); a missing
\* key, another value and a line without ':' leave it false; the empty text
\* gives all fields false; raw_message is the text as given.
C26_FieldsFromKeys ==
    \A w \in SeqWorkers :
        Parsed(w)
            => LET lines == frame[w].value[1]
                   status == frame[w].ret[1]
               IN  /\ status.connected = MappedToOne(lines, "connected")
                   /\ status.connecting = MappedToOne(lines, "connecting")
                   /\ status.recording = MappedToOne(lines, "recording")
                   /\ status.signal_present
                         = MappedToOne(lines, "signal_present")
                   /\ status.raw_message = Some(StatusText(lines))
                   /\ lines = <<>>
                         => /\ ~status.connected /\ ~status.connecting
                            /\ ~status.recording /\ ~status.signal_present
                            /\ ~status.streaming
                            /\ status.raw_message = Some(<<>>)

C26_Witness ==
    \E w \in SeqWorkers :
        /\ Parsed(w)
        /\ Len(frame[w].value[1]) = 3
        /\ frame[w].value[1][1].key = ""
        /\ frame[w].value[1][2].text = <<"Connected", " ", ":", " ", "1">>
        /\ frame[w].value[1][3].text = <<"recording", ":", " ", "1", ":", "1">>
        /\ frame[w].ret[1].connected
        /\ ~frame[w].ret[1].recording

\* The lines carry pairwise distinct keys (a line without ':' has none).
DistinctKeys(lines) ==
    \A i, j \in 1..Len(lines) :
        i # j /\ lines[i].key # "" => lines[i].key # lines[j].key

\* The orders of n lines.
Orders(n) == {p \in [1..n -> 1..n] : \A i, j \in 1..n : i # j => p[i] # p[j]}

\* The record parsed from the lines taken in order p.
Reordered(lines, p) ==
    DetailedStatus(TRUE, StatusText([i \in 1..Len(lines) |-> lines[p[i]]]))

\* C27 as stated: for a text whose lines have distinct keys, every
\* permutation of the lines parses to the same record.
C27_SameRecordInAnyOrder ==
    \A w \in SeqWorkers :
        Parsed(w) /\ DistinctKeys(frame[w].value[1])
            => \A p \in Orders(Len(frame[w].value[1])) :
                   Reordered(frame[w].value[1], p) = frame[w].ret[1]

\* C27 amended: for a text whose lines have distinct keys, every permutation
\* of the lines parses to a record with the same streaming, recording,
\* connected, connecting and signal_present; raw_message is the text as
\* given, in the order given.
C27_SameFieldsInAnyOrder ==
    \A w \in SeqWorkers :
        Parsed(w) /\ DistinctKeys(frame[w].value[1])
            => \A p \in Orders(Len(frame[w].value[1])) :
                   LET lines == frame[w].value[1]
                       other == Reordered(lines, p)
                       status == frame[w].ret[1]
                   IN  /\ other.streaming = status.streaming
                       /\ other.recording = status.recording
                       /\ other.connected = status.connected
                       /\ other.connecting = status.connecting
                       /\ other.signal_present = status.signal_present
                       /\ other.command_success = status.command_success
                       /\ other.raw_message
                             = Some(StatusText([i \in 1..Len(lines) |->
                                                  lines[p[i]]]))

C27_Witness ==
    \E w \in SeqWorkers :
        /\ Parsed(w)
        /\ Len(frame[w].value[1]) = 2
        /\ frame[w].value[1][1].text = <<"connected", ":", " ", "1">>
        /\ frame[w].value[1][2].text = <<"connecting", ":", " ", "1">>
        /\ ~frame[w].ret[1].streaming
        /\ ~Reordered(frame[w].value[1], <<2, 1>>).streaming

\* ------------------------------------------------------------------ C28

\* Worker w is at the assignment of set, about to store v under k.
SetStores(w, k, v) ==
    /\ pc[w] = "set_body"
    /\ frame[w].key = Some(k)
    /\ frame[w].value = Some(v)

\* What get(k) returns on the cache c: the value of an unexpired entry, or
\* None.
GetResult(c, k) ==
    IF k \in DOMAIN c /\ Unexpired(c[k][2]) THEN Some(c[k][1]) ELSE None

\* C28: a set(k, v) on a cache that has an entry for k, of any age, leaves
\* one entry for k: v with the time of this set as timestamp (age 0), so
\* that get(k) returns v and the TTL runs from this set; the entries of the
\* other keys stay.
C28_SetOverwrites ==
    [][\A w \in Workers : \A k \in Keys : \A v \in CacheValues :
          SetStores(w, k, v) /\ pc'[w] # "set_body"
              => /\ cache'[k] = <<v, 0>>
                 /\ GetResult(cache', k) = Some(v)
                 /\ DOMAIN cache' = DOMAIN cache \cup {k}
                 /\ \A x \in DOMAIN cache \ {k} : cache'[x] = cache[x]]_vars

\* A set(k, "v1") has returned, a later set(k, "v2") has just stored.
C28_Witness ==
    \E w1, w2 \in Workers : \E k \in Keys :
        /\ w1 # w2
        /\ pc[w1] = "idle" /\ frame[w1].op = "set"
        /\ frame[w1].key = Some(k) /\ frame[w1].value = Some("v1")
        /\ pc[w2] = "idle" /\ frame[w2].op = "set"
        /\ frame[w2].key = Some(k) /\ frame[w2].value = Some("v2")
        /\ cache[k] = <<"v2", 0>>

\* ------------------------------------------------------------------ C29

\* Worker w is at the body of invalidate(k).
Invalidates(w, k) == pc[w] = "inv_body" /\ frame[w].key = Some(k)

\* C29: for every string k, the empty string too, invalidate(k) removes the
\* entry of k when there is one, changes nothing when there is none, and
\* leaves the entries of all other keys as they are.
C29_InvalidateRemovesOnlyKey ==
    [][\A w \in SeqWorkers : \A k \in StringKeys :
          Invalidates(w, k) /\ pc'[w] # "inv_body"
              => cache' = DictDel(cache, k)]_vars

\* The part of C29 that holds: the same for every key but the empty string.
C29_NonEmptyKeys ==
    [][\A w \in SeqWorkers : \A k \in StringKeys \ {""} :
          Invalidates(w, k) /\ pc'[w] # "inv_body"
              => cache' = DictDel(cache, k)]_vars

\* ------------------------------------------------------------------ C30

\* The cache c, n ticks later.
AgedBy(c, n) ==
    [k \in DOMAIN c |->
        <<c[k][1], IF c[k][2] + n > CacheAgeCap THEN CacheAgeCap ELSE c[k][2] + n>>]

\* C30: clear_old_entries removes exactly the entries whose age is at least
\* the TTL and leaves the others as they are; at that time and at every
\* later time get returns, for every key, what it would have returned
\* without the call.
C30_SweepRemovesExpired ==
    [][\A w \in SeqWorkers :
          pc[w] = "coe_body" /\ pc'[w] # "coe_body"
              => /\ DOMAIN cache'
                      = {k \in DOMAIN cache : cache[k][2] < STATUS_CACHE_DURATION}
                 /\ \A k \in DOMAIN cache' : cache'[k] = cache[k]
                 /\ \A k \in StringKeys : \A n \in 0..CacheAgeCap :
                       GetResult(AgedBy(cache', n), k)
                           = GetResult(AgedBy(cache, n), k)]_vars

\* A clear_old_entries has removed an entry and kept one that was a tick
\* short of expiring.
C30_Witness ==
    \E w \in SeqWorkers : \E k1, k2 \in Keys :
        /\ pc[w] = "idle"
        /\ frame[w].op = "clear_old_entries"
        /\ frame[w].log = "CLEARED"
        /\ k1 \notin DOMAIN cache
        /\ k2 \in DOMAIN cache
        /\ cache[k2][2] = STATUS_CACHE_DURATION - 1

\* ------------------------------------------------------------------ C31

\* The call is_butt_running(use_cache=True) of worker w has returned.
RunningReturned(w) ==
    /\ pc[w] = "idle"
    /\ frame[w].op = "is_butt_running"
    /\ frame[w].use_cache

\* C31: is_butt_running(use_cache=True) answers from the butt_running entry
\* while that entry is within its TTL, True and False alike, without
\* scanning the processes; it scans only when there is no entry or the entry
\* has expired (and was deleted), once, and stores what the scan found.
C31_LivenessCached ==
    \A w \in SeqWorkers :
        /\ RunningReturned(w) /\ frame[w].log = "HIT"
              => /\ frame[w].scans = 0
                 /\ "butt_running" \in DOMAIN cache
                 /\ frame[w].ret = Some(cache["butt_running"][1])
        /\ RunningReturned(w) /\ frame[w].log # "HIT"
              => /\ frame[w].scans = 1
                 /\ "butt_running" \in DOMAIN cache
                 /\ frame[w].ret = Some(cache["butt_running"][1])
        /\ frame[w].op = "is_butt_running" /\ pc[w] = "get_del"
              => ~Unexpired(cache["butt_running"][2])
        /\ frame[w].op = "is_butt_running" /\ pc[w] = "ibr_scan"
              => "butt_running" \notin DOMAIN cache

C31_Witness ==
    \E w \in SeqWorkers :
        /\ RunningReturned(w)
        /\ frame[w].log = "HIT"
        /\ frame[w].ret = Some(FALSE)
        /\ frame[w].scans = 0
        /\ cache["butt_running"][2] = STATUS_CACHE_DURATION - 1

\* ------------------------------------------------------------------ C32

\* Worker w is at the body of an invalidate called without a key.
InvalidatesAll(w) == pc[w] = "inv_body" /\ frame[w].key = None

\* C32: invalidate() without a key, called directly or by the clear_cache
\* handler, leaves the cache with no entry, so that a get of any key then
\* finds nothing; and clear_cache reports success whenever it returns.
C32_ClearLeavesNothing ==
    [][/\ \A w \in Workers :
            InvalidatesAll(w) /\ pc'[w] # "inv_body"
                => /\ cache' = <<>>
                   /\ \A k \in StringKeys : GetResult(cache', k) = None
       /\ \A w \in Workers :
            pc'[w] = "idle" /\ frame'[w].op = "clear_cache"
                => frame'[w].ret = Some(TRUE)]_vars

\* A set has returned, then a clear_cache: nothing is left.
C32_Witness ==
    \E w1, w2 \in Workers :
        /\ pc[w1] = "idle" /\ frame[w1].op = "set"
        /\ pc[w2] = "idle" /\ frame[w2].op = "clear_cache"
        /\ frame[w2].ret = Some(TRUE)
        /\ cache = <<>>

\* ------------------------------------------------------------------ C33

\* The state-changing command of worker c has run, has invalidated the
\* status entry and has returned.
CommandCompleted(c) ==
    /\ pc[c] = "idle"
    /\ frame[c].op = "send_command"
    /\ frame[c].outcome = "exit"

\* The read of worker r made its own status query and has returned.
ReadQueried(r) ==
    /\ StatusReturned(r)
    /\ frame[r].ext = 1
    /\ frame[r].result[1][1]

\* C33: once a state-changing command has completed, the cache does not hold
\* the record of a status query made before that command: a read that held
\* its answer when the command was sent does not store it after the
\* command's invalidation.
C33_NoStaleStatusAfterCommand ==
    \A r, c \in Workers :
        r # c /\ CommandCompleted(c) /\ ReadQueried(r)
            => ~ /\ "detailed_status" \in DOMAIN cache
                 /\ cache["detailed_status"][1] = frame[r].ret[1]

\* ------------------------------------------------------------------ C34

\* The read of worker w was admitted, made its status query and returned.
QueriedAndReturned(w) == StatusReturned(w) /\ frame[w].ext = 1

\* C34: when two admitted status queries overlap, the later-admitted one
\* arriving while the external call of the earlier is still running, the
\* detailed_status entry left once both have returned is the record of the
\* later-admitted query.
C34_LaterQueryWins ==
    \A e, l \in Workers :
        e < l /\ QueriedAndReturned(e) /\ QueriedAndReturned(l)
            => /\ "detailed_status" \in DOMAIN cache
               /\ cache["detailed_status"][1] = frame[l].ret[1]

\* ------------------------------------------------------------------ C35

\* The status read of worker w has passed the gate: it is about to run, is
\* running or has run its external status query.
PassedGate(w) ==
    /\ frame[w].op = "get_detailed_status"
    /\ \/ pc[w] \in {"sc_exists", "sc_run"}
       \/ frame[w].outcome # ""

\* C35: of the concurrent get_detailed_status calls that miss the cache
\* within one COMMAND_MIN_INTERVAL, at most one passes the gate and runs the
\* external status query; every other one that missed returns without an
\* external call.
C35_OneQueryPerWindow ==
    /\ \A v, w \in Workers : PassedGate(v) /\ PassedGate(w) => v = w
    /\ \A v, w \in Workers :
          v # w /\ PassedGate(v) /\ StatusReturned(w) /\ frame[w].log # "HIT"
              => /\ frame[w].ext = 0
                 /\ ThrottledRead(w)

C35_Witness ==
    \E v, w \in Workers :
        /\ v # w
        /\ pc[v] = "sc_run" /\ frame[v].op = "get_detailed_status"
        /\ StatusReturned(w)
        /\ frame[w].log = "MISS"
        /\ frame[w].ext = 0
        /\ ThrottledRead(w)

\* ------------------------------------------------------------------ C36

\* The call of worker w is a forced refresh: get_detailed_status with
\* use_cache=False.
Refresh(w) == frame[w].op = "get_detailed_status" /\ ~frame[w].use_cache

\* The last admitted status query is less than COMMAND_MIN_INTERVAL old.
StatusTooSoon ==
    /\ "status" \in DOMAIN last_command_time
    /\ last_command_time["status"] < COMMAND_MIN_INTERVAL

\* C36: a forced refresh does not read the cache but does go through the
\* gate: checked less than COMMAND_MIN_INTERVAL after the last admitted
\* status query it is rejected, it reaches the external call only by being
\* admitted, and the rejected refresh returns with no external call made and
\* a record whose command_success is False.
C36_RefreshStillThrottled ==
    [][\A w \in SeqWorkers :
          /\ (Refresh(w) /\ pc[w] = "csc_check" /\ StatusTooSoon
                 /\ pc'[w] # "csc_check")
                => pc'[w] = "sc_throttled"
          /\ (Refresh(w) /\ pc'[w] = "sc_exists" /\ pc[w] # "sc_exists")
                => pc[w] = "csc_update"
          /\ (frame'[w].op = "get_detailed_status" /\ ~frame'[w].use_cache)
                => frame'[w].log = ""
          /\ (frame'[w].op = "get_detailed_status" /\ ~frame'[w].use_cache
                 /\ pc'[w] = "idle"
                 /\ frame'[w].result = Some(<<FALSE, MsgThrottled("status")>>))
                => (frame'[w].ext = 0
                    /\ frame'[w].ret[1].command_success = FALSE)]_vars

C36_Witness ==
    \E w \in SeqWorkers :
        /\ StatusReturned(w)
        /\ Refresh(w)
        /\ ThrottledRead(w)
        /\ frame[w].ext = 0
        /\ frame[w].ret[1].command_success = FALSE
        /\ "detailed_status" \in DOMAIN cache
        /\ Unexpired(cache["detailed_status"][2])

\* ------------------------------------------------------------------ C37

\* The command of worker w was admitted and then failed: the executable was
\* missing, the run timed out or raised, or it exited with a non-zero code.
AdmittedAndFailed(w) ==
    /\ frame[w].op = "send_command"
    /\ frame[w].outcome # ""
    /\ pc[w] # "sc_run"
    /\ ~frame[w].result[1][1]

\* C37: the admission is recorded before the external call and stays when
\* the command fails: from the admission on the record of the type is there
\* and is the record of that admission, so that until COMMAND_MIN_INTERVAL
\* has passed the next command of the type is throttled.
C37_FailedCommandStillThrottles ==
    \A w \in SeqWorkers :
        /\ frame[w].op = "send_command" /\ pc[w] \in {"sc_exists", "sc_run"}
              => frame[w].command_type \in DOMAIN last_command_time
        /\ AdmittedAndFailed(w)
              => /\ frame[w].command_type \in DOMAIN last_command_time
                 /\ last_command_time[frame[w].command_type]
                       = admitted_at[frame[w].command_type]

\* A command has failed with a timeout and its type is still throttled.
C37_Witness ==
    \E w \in SeqWorkers :
        /\ CommandReturned(w)
        /\ AdmittedAndFailed(w)
        /\ frame[w].outcome = "timeout"
        /\ TooSoon(last_command_time[frame[w].command_type])

\* ------------------------------------------------------------------ C38

\* The check of worker w finds no admission of its type less than
\* COMMAND_MIN_INTERVAL back.
IntervalPassed(w) ==
    LET k == GateKey(frame[w].command_type)
    IN  k \notin DOMAIN last_command_time
        \/ last_command_time[k] >= COMMAND_MIN_INTERVAL

\* A can_send_command checked COMMAND_MIN_INTERVAL or more after the last
\* admission of its type is admitted, whatever was rejected in between.
AdmittedWhenDue ==
    \A w \in Workers :
        (pc[w] = "csc_check" /\ pc'[w] # "csc_check" /\ IntervalPassed(w))
            => pc'[w] = "csc_update"

\* C38 as stated: a can_send_command(t) checked COMMAND_MIN_INTERVAL or more
\* after the last admission of t is admitted, and each caller that keeps
\* retrying t while time advances is admitted in the end.
C38_EveryCallerAdmitted ==
    /\ [][AdmittedWhenDue]_vars
    /\ \A w \in Workers : \A t \in CommandTypes :
          []<>GateReturned(w, t, TRUE)

\* C38 amended: a can_send_command(t) checked COMMAND_MIN_INTERVAL or more
\* after the last admission of t is admitted, and while callers keep
\* retrying t and time advances, a call of t is admitted again and again;
\* which caller it is, is not determined.
C38_SomeCallerAdmitted ==
    /\ [][AdmittedWhenDue]_vars
    /\ \A t \in CommandTypes :
          []<>(\E w \in Workers : GateReturned(w, t, TRUE))

\* A call is admitted after a rejected call of the same type by the other
\* worker.
C38_Witness ==
    \E v, w \in Workers : \E t \in CommandTypes :
        /\ v # w
        /\ GateReturned(v, t, FALSE)
        /\ GateReturned(w, t, TRUE)
        /\ last_command_time[t] = 0

\* ------------------------------------------------------------------ C39

\* Worker w takes a step of get, set, invalidate or clear_old_entries.
CacheOperationStep(w) ==
    /\ pc[w] \in {"get_acquire", "get_check", "get_del", "set_acquire",
                  "set_body", "inv_acquire", "inv_body", "coe_acquire",
                  "coe_body"}
    /\ pc'[w] # pc[w]

\* Worker w takes a step of can_send_command.
GateOperationStep(w) ==
    /\ pc[w] \in {"csc_acquire", "csc_check", "csc_update"}
    /\ pc'[w] # pc[w]

\* C39: the cache and the throttle records do not touch each other: no step
\* of get, set, invalidate(key), invalidate() and clear_old_entries changes
\* a throttle record or command_lock, so clearing the cache does not reset
\* the throttling, and no step of can_send_command changes a cache entry or
\* the cache lock.
C39_CacheAndGateSeparate ==
    [][\A w \in SeqWorkers :
          /\ CacheOperationStep(w)
                => /\ last_command_time' = last_command_time
                   /\ command_lock' = command_lock
          /\ GateOperationStep(w)
                => /\ cache' = cache
                   /\ lock' = lock]_vars

\* The cache has just been cleared while a type is throttled.
C39_Witness ==
    \E w \in SeqWorkers : \E t \in CommandTypes :
        /\ pc[w] = "idle"
        /\ frame[w].op = "invalidate"
        /\ frame[w].key = None
        /\ cache = <<>>
        /\ t \in DOMAIN last_command_time
        /\ TooSoon(last_command_time[t])

====
